---- MODULE Spec2Model ----
(***************************************************************************)
(* The core of the MCP server framework (packages/core/src/core.ts): the   *)
(* McpServer registry (tools, prompts, resources, capabilities), the       *)
(* middleware runner and the _dispatch request -> response state machine.  *)
(*                                                                         *)
(* JavaScript values are modelled as follows.  A string, a function or a   *)
(* validator is a TLA+ string; the value undefined is the string           *)
(* "undefined".  An object is a TLA+ record whose DOMAIN is the set of     *)
(* keys that are present.  A Map is the sequence of its [key, value]       *)
(* pairs in insertion order.  A URI or URI template is the sequence of its *)
(* "/"-separated segments.  null is the record Null; a non-object value    *)
(* in a place that usually holds an object is the record NotAnObject.      *)
(*                                                                         *)
(* One step of the model is the code that runs between two suspension      *)
(* points (awaits) of one dispatch, or one call of a registration method.  *)
(***************************************************************************)
EXTENDS Integers, Sequences, FiniteSets, TLC

VARIABLES
  initialized,     \* McpServer.initialized
  middlewares,     \* McpServer.middlewares: sequence of middleware functions
  capabilities,    \* McpServer.capabilities
  onErrorHandler,  \* McpServer.onErrorHandler, "undefined" when not set
  schemaAdapter,   \* McpServer.schemaAdapter, "undefined" when not given
  tools,           \* McpServer.tools    (Map name -> ToolEntry)
  prompts,         \* McpServer.prompts  (Map name -> PromptEntry)
  resources,       \* McpServer.resources (Map template -> ResourceEntry)
  notificationSender, \* McpServer.notificationSender, "undefined" if unset
  calls,           \* the _dispatch calls in flight, one per slot
  sent,            \* the calls of the transport's notification sender, in
                   \* order: [to, sessionId, notification, options]
  registered       \* history: the arguments of the latest tool()/prompt()/
                   \* resource() call per kind and key, the keys of each kind
                   \* in the order of their first registration, and whether
                   \* some call replaced an entry by one with another handler

server == <<initialized, middlewares, capabilities, onErrorHandler,
            schemaAdapter, tools, prompts, resources, notificationSender>>
vars == <<initialized, middlewares, capabilities, onErrorHandler,
          schemaAdapter, tools, prompts, resources, notificationSender,
          calls, sent, registered>>

----------------------------------------------------------------------------
(* Bounds of the model. *)

\* the longest middleware list use() builds
MaxMiddlewares == 2
\* the number of _dispatch calls that can be in flight
NumSlots == 2
\* the most calls of the notification sender a run records
MaxSent == 2

Slots == 1..NumSlots

----------------------------------------------------------------------------
(* Values. *)

\* undefined where a string, a function or a validator is expected
Undefined == "undefined"
\* undefined (or another non-object) where an object is expected
NotAnObject == [primitive |-> "undefined"]
Null == [null |-> TRUE]

SUPPORTED_MCP_PROTOCOL_VERSION == "2025-06-18"

\* JSON_RPC_ERROR_CODES
METHOD_NOT_FOUND == -32601
INVALID_PARAMS == -32602
INTERNAL_ERROR == -32603
\* the code handleInitialize throws on a protocol version mismatch
UNSUPPORTED_VERSION == -32000

\* new RpcError(code, message, data): data is absent when undefined
RpcError(code, message) ==
  [type |-> "RpcError", code |-> code, message |-> message]
RpcErrorData(code, message, data) ==
  [type |-> "RpcError", code |-> code, message |-> message, data |-> data]

\* RpcError.toJson(): the JSON-RPC error object {code, message, data?}
toJson(err) ==
  IF "data" \in DOMAIN err
    THEN [code |-> err.code, message |-> err.message, data |-> err.data]
    ELSE [code |-> err.code, message |-> err.message]

\* a thrown Error that is not an RpcError, and a thrown non-Error value
ForeignError(message) ==
  [type |-> "Error", message |-> message, stack |-> "stack"]
RawThrow(value) == [type |-> "raw", value |-> value]

createJsonRpcResponse(id, result) ==
  [jsonrpc |-> "2.0", id |-> id, result |-> result]
createJsonRpcError(id, error) ==
  [jsonrpc |-> "2.0", id |-> id, error |-> error]

\* utils.isObject / utils.isString on the modelled values
isObject(v) == "primitive" \notin DOMAIN v
isString(v) == v # Undefined

----------------------------------------------------------------------------
(* Map: insertion-ordered, set() on an existing key replaces the value in  *)
(* place.                                                                  *)

MapHas(m, k) == \E i \in 1..Len(m) : m[i].key = k
MapIndex(m, k) == CHOOSE i \in 1..Len(m) : m[i].key = k
MapGet(m, k) ==
  IF MapHas(m, k) THEN m[MapIndex(m, k)].value ELSE NotAnObject
MapSetMoveToEnd(m, k, v) ==
  Append(SelectSeq(m, LAMBDA e : e.key # k), [key |-> k, value |-> v])
MapSetKeepFirst(m, k, v) ==
  IF MapHas(m, k) THEN m ELSE Append(m, [key |-> k, value |-> v])
MapSetAppend(m, k, v) == Append(m, [key |-> k, value |-> v])
MapSet(m, k, v) ==
  IF MapHas(m, k)
    THEN [m EXCEPT ![MapIndex(m, k)] = [key |-> k, value |-> v]]
    ELSE Append(m, [key |-> k, value |-> v])
MapValues(m) == [i \in 1..Len(m) |-> m[i].value]
MapKeys(m) == [i \in 1..Len(m) |-> m[i].key]

----------------------------------------------------------------------------
(* Schemas and validators (validation.ts, context.ts).                     *)

\* a Standard Schema validator: an object with a "~standard" description
StandardSchema(v) == [standard |-> v]
\* a JSON Schema document: properties in insertion order, required names
JsonSchema(props, req) ==
  [type |-> "object", properties |-> props, required |-> req]
DefaultSchema == [type |-> "object"]

\* SchemaAdapter: the JSON Schema the embedder's adapter derives
adapt(adapter, schema) ==
  [type |-> "object", adapter |-> adapter, from |-> schema.standard]

resolveToolSchema(schema, adapter) ==
  IF ~isObject(schema)
    THEN [mcpInputSchema |-> DefaultSchema, validator |-> Undefined]
  ELSE IF "standard" \in DOMAIN schema
    THEN [mcpInputSchema |-> IF adapter # Undefined
                               THEN adapt(adapter, schema)
                               ELSE DefaultSchema,
          validator |-> schema.standard]
  ELSE [mcpInputSchema |-> schema, validator |-> Undefined]

extractArgumentsFromSchema(schema) ==
  IF "properties" \in DOMAIN schema
    THEN [i \in 1..Len(schema.properties) |->
            [name |-> schema.properties[i],
             required |-> schema.properties[i] \in schema.required]]
    ELSE <<>>

\* Argument values: v is the value sent (or "undefined", or "{}"), and
\* validated tells a validator's output from the raw input.
Raw(v) == [v |-> v, validated |-> FALSE]

\* the values validator `validator` accepts
Accepts(validator, value) ==
  CASE validator = "v1" -> value.v \in {"{}", "good", "a"}
    [] OTHER -> TRUE

\* ctx.validate(validator, value): the validator's output, or INVALID_PARAMS
validate(validator, value) ==
  IF Accepts(validator, value)
    THEN [threw |-> FALSE,
          value |-> [v |-> value.v, validated |-> TRUE, by |-> validator]]
    ELSE [threw |-> TRUE,
          error |-> RpcErrorData(INVALID_PARAMS, "Validation failed",
                                 [validator |-> validator])]

----------------------------------------------------------------------------
(* URI templates (uri-template.ts).                                        *)

IsVar(seg) == seg \in {"{x}", "{y}"}
VarName(seg) == IF seg = "{x}" THEN "x" ELSE "y"
\* template.includes("{")
includesBrace(template) == \E i \in 1..Len(template) : IsVar(template[i])
\* percent-decoding of one matched segment
decode(seg) == IF seg = "%62" THEN "b" ELSE seg

compileUriTemplate(template) == [template |-> template]

VarIndexes(template) == {i \in 1..Len(template) : IsVar(template[i])}
\* matcher.match(uri): NotAnObject for null, else [vars |-> name -> value]
match(matcher, uri) ==
  LET t == matcher.template IN
  IF /\ Len(t) = Len(uri)
     /\ \A i \in 1..Len(t) : IsVar(t[i]) \/ t[i] = uri[i]
    THEN [vars |-> [n \in {VarName(t[i]) : i \in VarIndexes(t)} |->
                     decode(uri[CHOOSE i \in VarIndexes(t) :
                                  VarName(t[i]) = n])]]
    ELSE NotAnObject

----------------------------------------------------------------------------
(* Registration: use, onError, tool, resource, prompt.                     *)

NeverRegistered == [registered |-> FALSE]

use(middleware) ==
  /\ Len(middlewares) < MaxMiddlewares
  /\ middlewares' = Append(middlewares, middleware)
  /\ UNCHANGED <<initialized, capabilities, onErrorHandler, schemaAdapter,
                 tools, prompts, resources, calls, registered>>
  /\ UNCHANGED <<notificationSender, sent>>

\* _setNotificationSender(sender)
setNotificationSender(sender) ==
  /\ notificationSender' = sender
  /\ UNCHANGED <<initialized, middlewares, capabilities, onErrorHandler,
                 schemaAdapter, tools, prompts, resources, calls, sent,
                 registered>>

onError(handler) ==
  /\ onErrorHandler' = handler
  /\ UNCHANGED <<initialized, middlewares, capabilities, schemaAdapter,
                 tools, prompts, resources, calls, registered>>
  /\ UNCHANGED <<notificationSender, sent>>

enableOverwrite(caps, kind, value) == (kind :> value)
\* capabilities.<kind> is set on the first registration of the kind
enable(caps, kind, value) ==
  IF kind \in DOMAIN caps THEN caps ELSE (kind :> value) @@ caps

ToolMetadata(name, def, adapter) ==
  LET base == [name |-> name,
               inputSchema |->
                 resolveToolSchema(def.inputSchema, adapter).mcpInputSchema]
  IN IF def.description # Undefined
       THEN ("description" :> def.description) @@ base
       ELSE base

ToolEntry(name, def, adapter) ==
  [metadata |-> ToolMetadata(name, def, adapter),
   handler |-> def.handler,
   validator |-> resolveToolSchema(def.inputSchema, adapter).validator]

tool(name, def) ==
  /\ capabilities' = enable(capabilities, "tools", [listChanged |-> TRUE])
  /\ tools' = MapSet(tools, name, ToolEntry(name, def, schemaAdapter))
  /\ registered' = [registered EXCEPT
       !.tools[name] = [registered |-> TRUE, def |-> def],
       !.order.tools = IF registered.tools[name].registered
                         THEN @ ELSE Append(@, name),
       !.replaced = @ \/ (MapHas(tools, name)
                           /\ MapGet(tools, name).handler # def.handler)]
  /\ UNCHANGED <<initialized, middlewares, onErrorHandler, schemaAdapter,
                 prompts, resources, calls>>
  /\ UNCHANGED <<notificationSender, sent>>

ResourceEntry(template, meta, validatorsOrHandler, handler) ==
  LET isStatic == ~includesBrace(template) IN
  [metadata |-> IF isStatic THEN meta @@ [uri |-> template]
                            ELSE meta @@ [uriTemplate |-> template],
   handler |-> IF handler # Undefined THEN handler ELSE validatorsOrHandler,
   validators |-> IF handler # Undefined THEN validatorsOrHandler
                                         ELSE NotAnObject,
   matcher |-> IF isStatic THEN NotAnObject ELSE compileUriTemplate(template),
   type |-> IF isStatic THEN "resource" ELSE "resource_template"]

resource(template, meta, validatorsOrHandler, handler) ==
  /\ capabilities' = enable(capabilities, "resources", <<>>)
  /\ resources' = MapSet(resources, template,
                    ResourceEntry(template, meta, validatorsOrHandler, handler))
  /\ registered' = [registered EXCEPT
       !.resources[template] =
         [registered |-> TRUE, meta |-> meta,
          handler |-> IF handler # Undefined
                        THEN handler ELSE validatorsOrHandler,
          validators |-> IF handler # Undefined
                           THEN validatorsOrHandler ELSE NotAnObject],
       !.order.resources = IF registered.resources[template].registered
                             THEN @ ELSE Append(@, template),
       !.replaced = @ \/ (MapHas(resources, template)
                           /\ MapGet(resources, template).handler
                                # (IF handler # Undefined
                                     THEN handler ELSE validatorsOrHandler))]
  /\ UNCHANGED <<initialized, middlewares, onErrorHandler, schemaAdapter,
                 tools, prompts, calls>>
  /\ UNCHANGED <<notificationSender, sent>>

isArray(v) == "array" \in DOMAIN v

PromptArguments(def, adapter) ==
  IF isObject(def.arguments)
    THEN IF isArray(def.arguments)
           THEN [validator |-> Undefined, argumentDefs |-> def.arguments.array]
           ELSE [validator |->
                   resolveToolSchema(def.arguments, adapter).validator,
                 argumentDefs |-> extractArgumentsFromSchema(
                   resolveToolSchema(def.arguments, adapter).mcpInputSchema)]
  ELSE IF isObject(def.inputSchema)
    THEN [validator |->
            resolveToolSchema(def.inputSchema, adapter).validator,
          argumentDefs |-> extractArgumentsFromSchema(
            resolveToolSchema(def.inputSchema, adapter).mcpInputSchema)]
  ELSE [validator |-> Undefined, argumentDefs |-> <<>>]

PromptEntry(name, def, adapter) ==
  LET a == PromptArguments(def, adapter)
      base == [name |-> name, title |-> def.title,
               description |-> def.description]
  IN [metadata |-> IF Len(a.argumentDefs) > 0
                     THEN ("arguments" :> a.argumentDefs) @@ base
                     ELSE base,
      handler |-> def.handler,
      validator |-> a.validator]

prompt(name, def) ==
  /\ capabilities' = enable(capabilities, "prompts", [listChanged |-> TRUE])
  /\ prompts' = MapSet(prompts, name, PromptEntry(name, def, schemaAdapter))
  /\ registered' = [registered EXCEPT
       !.prompts[name] = [registered |-> TRUE, def |-> def],
       !.order.prompts = IF registered.prompts[name].registered
                           THEN @ ELSE Append(@, name),
       !.replaced = @ \/ (MapHas(prompts, name)
                           /\ MapGet(prompts, name).handler # def.handler)]
  /\ UNCHANGED <<initialized, middlewares, onErrorHandler, schemaAdapter,
                 tools, resources, calls>>
  /\ UNCHANGED <<notificationSender, sent>>

----------------------------------------------------------------------------
(* The method table and the built-in method handlers.                      *)

\* this.methods[method]: the table the constructor fills; methods is a plain
\* object, so a name the table lacks is looked up on Object.prototype
methods(method) ==
  CASE method = "initialize" -> "handleInitialize"
    [] method = "ping" -> "handlePing"
    [] method = "tools/list" -> "handleToolsList"
    [] method = "tools/call" -> "handleToolsCall"
    [] method = "prompts/list" -> "handlePromptsList"
    [] method = "prompts/get" -> "handlePromptsGet"
    [] method = "resources/list" -> "handleResourcesList"
    [] method = "resources/templates/list" -> "handleResourceTemplatesList"
    [] method = "resources/read" -> "handleResourcesRead"
    [] method = "resources/subscribe" -> "handleNotImplemented"
    [] method = "notifications/cancelled" -> "handleNotificationCancelled"
    [] method = "notifications/initialized" -> "handleNotificationInitialized"
    [] method = "notifications/progress" -> "handleNotificationProgress"
    [] method = "notifications/roots/list_changed" ->
         "handleNotificationRootsListChanged"
    [] method = "logging/setLevel" -> "handleLoggingSetLevel"
    [] method = "resources/unsubscribe" -> "handleNotImplemented"
    [] method = "completion/complete" -> "handleNotImplemented"
    [] method = "toString" -> "Object.prototype.toString"
    [] method = "__proto__" -> "Object.prototype"
    [] OTHER -> Undefined

\* What a method handler has done when it first suspends or ends.
Returned(result) == [kind |-> "return", result |-> result]
Threw(error) == [kind |-> "throw", error |-> error]
Awaiting(of, handler, args, uri, uriVars) ==
  [kind |-> "await", of |-> of, handler |-> handler, args |-> args,
   uri |-> uri, vars |-> uriVars]

handleToolsList ==
  Returned([tools |-> [i \in 1..Len(tools) |-> MapValues(tools)[i].metadata]])

handleToolsCallUnvalidated(params) ==
  IF ~isObject(params)
    THEN Threw(RpcError(INVALID_PARAMS,
                 "tools/call requires an object with name and arguments"))
  ELSE IF ~isString(params.name)
    THEN Threw(RpcError(INVALID_PARAMS,
                 "tools/call requires a string 'name' field"))
  ELSE LET entry == MapGet(tools, params.name) IN
    IF ~isObject(entry)
      THEN Threw(RpcErrorData(METHOD_NOT_FOUND, "Method not found",
                              [method |-> params.name]))
    ELSE Awaiting("tool", entry.handler, params.arguments, <<>>, <<>>)
\* lines 807-845, up to the call of the tool's handler
handleToolsCall(params) ==
  IF ~isObject(params)
    THEN Threw(RpcError(INVALID_PARAMS,
                 "tools/call requires an object with name and arguments"))
  ELSE IF ~isString(params.name)
    THEN Threw(RpcError(INVALID_PARAMS,
                 "tools/call requires a string 'name' field"))
  ELSE LET entry == MapGet(tools, params.name) IN
    IF ~isObject(entry)
      THEN Threw(RpcErrorData(METHOD_NOT_FOUND, "Method not found",
                              [method |-> params.name]))
    ELSE IF entry.validator # Undefined
      THEN LET r == validate(entry.validator, params.arguments) IN
           IF r.threw THEN Threw(r.error)
           ELSE Awaiting("tool", entry.handler, r.value, <<>>, <<>>)
    ELSE Awaiting("tool", entry.handler, params.arguments, <<>>, <<>>)

handlePromptsList ==
  Returned([prompts |->
              [i \in 1..Len(prompts) |-> MapValues(prompts)[i].metadata]])

handlePromptsGet(params) ==
  IF ~isObject(params)
    THEN Threw(RpcError(INVALID_PARAMS,
                 "prompts/get requires an object with name and arguments"))
  ELSE IF ~isString(params.name)
    THEN Threw(RpcError(INVALID_PARAMS,
                 "prompts/get requires a string 'name' field"))
  ELSE LET entry == MapGet(prompts, params.name) IN
    IF ~isObject(entry)
      THEN Threw(RpcErrorData(INVALID_PARAMS, "Invalid prompt name",
                              [name |-> params.name]))
    ELSE IF entry.validator # Undefined
      THEN LET r == validate(entry.validator, params.arguments) IN
           IF r.threw THEN Threw(r.error)
           ELSE Awaiting("prompt", entry.handler, r.value, <<>>, <<>>)
    ELSE Awaiting("prompt", entry.handler,
                  IF params.arguments.v # Undefined THEN params.arguments
                                                    ELSE Raw("{}"),
                  <<>>, <<>>)

IsResource(entry) == entry.type = "resource"
IsTemplate(entry) == entry.type = "resource_template"

handleResourcesList ==
  Returned([resources |->
    [i \in 1..Len(SelectSeq(MapValues(resources), IsResource)) |->
       SelectSeq(MapValues(resources), IsResource)[i].metadata]])

handleResourceTemplatesList ==
  Returned([resourceTemplates |->
    [i \in 1..Len(SelectSeq(MapValues(resources), IsTemplate)) |->
       SelectSeq(MapValues(resources), IsTemplate)[i].metadata]])

matchResourceTemplatesFirst(uri) ==
  LET directEntry == MapGet(resources, uri)
      hits == {i \in 1..Len(resources) :
                 /\ resources[i].value.type = "resource_template"
                 /\ isObject(resources[i].value.matcher)
                 /\ isObject(match(resources[i].value.matcher, uri))}
  IN IF hits # {}
       THEN LET first == CHOOSE i \in hits : \A j \in hits : i <= j IN
            [matchedEntry |-> resources[first].value,
             vars |-> match(resources[first].value.matcher, uri).vars]
     ELSE IF isObject(directEntry) /\ directEntry.type = "resource"
       THEN [matchedEntry |-> directEntry, vars |-> <<>>]
     ELSE [matchedEntry |-> NotAnObject, vars |-> <<>>]
matchResourceLast(uri) ==
  LET directEntry == MapGet(resources, uri)
      hits == {i \in 1..Len(resources) :
                 /\ resources[i].value.type = "resource_template"
                 /\ isObject(resources[i].value.matcher)
                 /\ isObject(match(resources[i].value.matcher, uri))}
  IN IF isObject(directEntry) /\ directEntry.type = "resource"
       THEN [matchedEntry |-> directEntry, vars |-> <<>>]
     ELSE IF hits # {}
       THEN LET last == CHOOSE i \in hits : \A j \in hits : i >= j IN
            [matchedEntry |-> resources[last].value,
             vars |-> match(resources[last].value.matcher, uri).vars]
     ELSE [matchedEntry |-> NotAnObject, vars |-> <<>>]
\* lines 940-959: the static entry under the exact uri, else the first
\* template, in insertion order, whose matcher matches
matchResource(uri) ==
  LET directEntry == MapGet(resources, uri)
      hits == {i \in 1..Len(resources) :
                 /\ resources[i].value.type = "resource_template"
                 /\ isObject(resources[i].value.matcher)
                 /\ isObject(match(resources[i].value.matcher, uri))}
  IN IF isObject(directEntry) /\ directEntry.type = "resource"
       THEN [matchedEntry |-> directEntry, vars |-> <<>>]
     ELSE IF hits # {}
       THEN LET first == CHOOSE i \in hits : \A j \in hits : i <= j IN
            [matchedEntry |-> resources[first].value,
             vars |-> match(resources[first].value.matcher, uri).vars]
     ELSE [matchedEntry |-> NotAnObject, vars |-> <<>>]

ValidationMessage(key) ==
  IF key = "x" THEN "Validation failed for parameter 'x'"
               ELSE "Validation failed for parameter 'y'"

validateVarsOnly(validators, matched) ==
  LET used == {i \in 1..Len(validators) :
                 validators[i].key \in DOMAIN matched}
      bad == {i \in used :
                validate(validators[i].validator,
                         Raw(matched[validators[i].key])).threw}
      keys == {validators[i].key : i \in 1..Len(validators)}
  IN IF bad # {}
       THEN LET first == CHOOSE i \in bad : \A j \in bad : i <= j IN
            Threw(RpcError(INVALID_PARAMS,
                           ValidationMessage(validators[first].key)))
       ELSE Returned(
         [k \in DOMAIN matched \cap keys |->
            validate(validators[CHOOSE i \in used : validators[i].key = k]
                       .validator,
                     Raw(matched[k])).value])
validateVarsLastFailure(validators, matched) ==
  LET used == {i \in 1..Len(validators) :
                 validators[i].key \in DOMAIN matched}
      bad == {i \in used :
                validate(validators[i].validator,
                         Raw(matched[validators[i].key])).threw}
      keys == {validators[i].key : i \in 1..Len(validators)}
  IN IF bad # {}
       THEN LET last == CHOOSE i \in bad : \A j \in bad : i >= j IN
            Threw(RpcError(INVALID_PARAMS,
                           ValidationMessage(validators[last].key)))
       ELSE Returned(
         [k \in DOMAIN matched |->
            IF k \in keys
              THEN validate(
                     validators[CHOOSE i \in used : validators[i].key = k]
                       .validator,
                     Raw(matched[k])).value
              ELSE matched[k]])
\* lines 969-989: the per-variable validators, in the order of the
\* validators object; the first failure throws
validateVars(validators, matched) ==
  LET used == {i \in 1..Len(validators) :
                 validators[i].key \in DOMAIN matched}
      bad == {i \in used :
                validate(validators[i].validator,
                         Raw(matched[validators[i].key])).threw}
      keys == {validators[i].key : i \in 1..Len(validators)}
  IN IF bad # {}
       THEN LET first == CHOOSE i \in bad : \A j \in bad : i <= j IN
            Threw(RpcError(INVALID_PARAMS,
                           ValidationMessage(validators[first].key)))
       ELSE Returned(
         [k \in DOMAIN matched |->
            IF k \in keys
              THEN validate(
                     validators[CHOOSE i \in used : validators[i].key = k]
                       .validator,
                     Raw(matched[k])).value
              ELSE matched[k]])

handleResourcesRead(params) ==
  IF ~isObject(params)
    THEN Threw(RpcError(INVALID_PARAMS,
                 "resources/read requires an object with uri"))
  ELSE IF params.uri = <<>>
    THEN Threw(RpcError(INVALID_PARAMS,
                 "resources/read requires a string 'uri' field"))
  ELSE LET m == matchResource(params.uri) IN
    IF ~isObject(m.matchedEntry)
      THEN Threw(RpcErrorData(METHOD_NOT_FOUND, "Method not found",
                              [uri |-> params.uri]))
    ELSE IF isObject(m.matchedEntry.validators)
      THEN LET v == validateVars(m.matchedEntry.validators.list, m.vars) IN
           IF v.kind = "throw" THEN v
           ELSE Awaiting("resource", m.matchedEntry.handler, Raw(Undefined),
                         params.uri, v.result)
    ELSE Awaiting("resource", m.matchedEntry.handler, Raw(Undefined),
                  params.uri, m.vars)

\* The result of initialize holds this.capabilities itself, not a copy (line
\* 1036): what a reader of the result finds in it is the object's content at
\* the time of reading.
ThisCapabilities == [ref |-> "this.capabilities"]
capabilitiesOf(result) ==
  IF result.capabilities = ThisCapabilities THEN capabilities
                                            ELSE result.capabilities

isInitializeParams(params) ==
  isObject(params) /\ "protocolVersion" \in DOMAIN params

handleInitializeOnce(params) ==
  IF ~isInitializeParams(params)
    THEN Threw(RpcError(INVALID_PARAMS, "Invalid initialize parameters"))
  ELSE IF params.protocolVersion # SUPPORTED_MCP_PROTOCOL_VERSION
    THEN Threw(RpcErrorData(UNSUPPORTED_VERSION,
                 "Unsupported protocol version",
                 [supportedVersion |-> SUPPORTED_MCP_PROTOCOL_VERSION,
                  requestedVersion |-> params.protocolVersion]))
  ELSE IF initialized
    THEN Threw(RpcError(INVALID_PARAMS, "Already initialized"))
  ELSE Returned([protocolVersion |-> SUPPORTED_MCP_PROTOCOL_VERSION,
                 serverInfo |-> [name |-> "server", version |-> "1.0.0"],
                 capabilities |-> ThisCapabilities])
\* lines 1007-1038
handleInitialize(params) ==
  IF ~isInitializeParams(params)
    THEN Threw(RpcError(INVALID_PARAMS, "Invalid initialize parameters"))
  ELSE IF params.protocolVersion # SUPPORTED_MCP_PROTOCOL_VERSION
    THEN Threw(RpcErrorData(UNSUPPORTED_VERSION,
                 "Unsupported protocol version",
                 [supportedVersion |-> SUPPORTED_MCP_PROTOCOL_VERSION,
                  requestedVersion |-> params.protocolVersion]))
  ELSE Returned([protocolVersion |-> SUPPORTED_MCP_PROTOCOL_VERSION,
                 serverInfo |-> [name |-> "server", version |-> "1.0.0"],
                 capabilities |-> ThisCapabilities])

handleNoop == Returned(<<>>)

handleNotImplemented(method) ==
  Threw(RpcErrorData(INTERNAL_ERROR, "Not implemented", [method |-> method]))

\* handler(message.params, ctx) for the handler _dispatch looked up
callHandler(handler, message) ==
  CASE handler = "handleInitialize" -> handleInitialize(message.params)
    [] handler = "handleToolsList" -> handleToolsList
    [] handler = "handleToolsCall" -> handleToolsCall(message.params)
    [] handler = "handlePromptsList" -> handlePromptsList
    [] handler = "handlePromptsGet" -> handlePromptsGet(message.params)
    [] handler = "handleResourcesList" -> handleResourcesList
    [] handler = "handleResourceTemplatesList" -> handleResourceTemplatesList
    [] handler = "handleResourcesRead" -> handleResourcesRead(message.params)
    [] handler = "handleNotImplemented" ->
         handleNotImplemented(message.method)
    [] handler = "Object.prototype.toString" ->
         Returned([string |-> "[object Undefined]"])
    [] handler = "Object.prototype" ->
         Threw(ForeignError("handler is not a function"))
    [] OTHER -> handleNoop

----------------------------------------------------------------------------
(* _dispatch and runMiddlewares.                                           *)

\* a slot with no _dispatch call in it.  The fields trace (what ran, in
\* order), invoked (the tool, prompt and resource handlers called), emitted
\* (the updates the handler passed to ctx.progress, in order) and threw
\* (something has thrown), handlerThrew (the value the tool, prompt or resource
\* handler threw) and onErrorResult (what the onError hook did: returned
\* a value or threw) are the call's history; the others are its locals.
Idle ==
  [pc |-> "idle", message |-> NotAnObject, requestId |-> Undefined,
   handler |-> Undefined, ctx |-> NotAnObject, stack |-> <<>>,
   pending |-> NotAnObject, error |-> NotAnObject, trace |-> <<>>,
   invoked |-> <<>>, emitted |-> <<>>, threw |-> FALSE,
   handlerThrew |-> NotAnObject, onErrorResult |-> NotAnObject,
   ret |-> NotAnObject]

isJsonRpcNotification(message) == message.id = Undefined

\* a progress token: a string or a number; NotAnObject: undefined
StringToken(str) == [string |-> str]
NumberToken(n) == [number |-> n]
\* getProgressToken(message): params._meta.progressToken when it is a string
\* or a number
getProgressToken(message) ==
  IF /\ isObject(message.params)
     /\ "_meta" \in DOMAIN message.params
     /\ isObject(message.params._meta)
     /\ "progressToken" \in DOMAIN message.params._meta
     /\ DOMAIN message.params._meta.progressToken \in {{"string"}, {"number"}}
    THEN message.params._meta.progressToken
    ELSE NotAnObject

\* the truthiness of a string or Undefined, and of a progress token
TruthyString(v) == v \notin {Undefined, ""}
TruthyToken(token) ==
  isObject(token) /\ token \notin {StringToken(""), NumberToken(0)}

\* lines 713-727: the closure over sessionId, progressToken and requestId,
\* or NotAnObject for undefined
progressSender(sessionId, progressToken, requestId) ==
  IF /\ TruthyString(sessionId)
     /\ notificationSender # Undefined
     /\ TruthyToken(progressToken)
    THEN [sessionId |-> sessionId, progressToken |-> progressToken,
          requestId |-> requestId]
    ELSE NotAnObject

\* createContext(message, requestId, options): ctx.progress is the sender
\* bound by _dispatch, when there is one
\* ctx.state: a new empty object, here the value under each key
StateKeys == {"user"}
EmptyState == [k \in StateKeys |-> Undefined]

createContext(message, requestId, options) ==
  [request |-> message, requestId |-> requestId, response |-> NotAnObject,
   state |-> EmptyState,
   sessionId |-> options.sessionId, progressToken |-> options.progressToken,
   progress |-> options.progressSender]

\* lines 707-737: the locals of one _dispatch call before the chain runs
newCallWith(message, contextOptions) ==
  LET requestId == IF isJsonRpcNotification(message) THEN Undefined
                                                     ELSE message.id
      progressToken == getProgressToken(message)
      sessionId == contextOptions.sessionId
  IN [Idle EXCEPT !.message = message,
                  !.requestId = requestId,
                  !.ctx = createContext(message, requestId,
                            [sessionId |-> sessionId,
                             progressToken |-> progressToken,
                             progressSender |->
                               progressSender(sessionId, progressToken,
                                              requestId)]),
                  !.handler = methods(message.method)]

\* contextOptions = {}: the default of _dispatch's second parameter
NoContextOptions == [sessionId |-> Undefined]
newCall(message) == newCallWith(message, NoContextOptions)

Event(ev, i, who) == [ev |-> ev, i |-> i, who |-> who]

tailGated(c) ==
  LET t == [c EXCEPT !.trace = Append(@, Event("tail", Len(c.stack), "tail"))]
  IN
  IF c.handler = Undefined
    THEN IF c.requestId = Undefined
           THEN [t EXCEPT !.pc = "unwind"]
           ELSE [t EXCEPT !.pc = "unwind",
                          !.ctx.response = createJsonRpcError(c.requestId,
                            toJson(IF c.message.method # Undefined
                                     THEN RpcErrorData(METHOD_NOT_FOUND,
                                            "Method not found",
                                            [method |-> c.message.method])
                                     ELSE RpcError(METHOD_NOT_FOUND,
                                            "Method not found")))]
  ELSE IF ~initialized /\ c.handler # "handleInitialize"
    THEN [t EXCEPT !.pc = "unwind", !.threw = TRUE,
                   !.error = RpcError(-32002, "Server not initialized")]
  ELSE LET o == callHandler(c.handler, c.message) IN
    CASE o.kind = "return" ->
           [t EXCEPT !.pc = "unwind",
                     !.ctx.response =
                       IF c.requestId # Undefined
                         THEN createJsonRpcResponse(c.requestId, o.result)
                         ELSE @]
      [] o.kind = "throw" ->
           [t EXCEPT !.pc = "unwind", !.error = o.error, !.threw = TRUE]
      [] o.kind = "await" ->
           [t EXCEPT !.pc = "handler",
                     !.pending = o,
                     !.invoked = Append(@, [of |-> o.of, handler |-> o.handler,
                                            args |-> o.args, uri |-> o.uri,
                                            vars |-> o.vars])]
\* lines 739-759: tail(), up to the handler's first suspension
tail(c) ==
  LET t == [c EXCEPT !.trace = Append(@, Event("tail", Len(c.stack), "tail"))]
  IN
  IF c.handler = Undefined
    THEN IF c.requestId = Undefined
           THEN [t EXCEPT !.pc = "unwind"]
           ELSE [t EXCEPT !.pc = "unwind",
                          !.ctx.response = createJsonRpcError(c.requestId,
                            toJson(IF c.message.method # Undefined
                                     THEN RpcErrorData(METHOD_NOT_FOUND,
                                            "Method not found",
                                            [method |-> c.message.method])
                                     ELSE RpcError(METHOD_NOT_FOUND,
                                            "Method not found")))]
  ELSE LET o == callHandler(c.handler, c.message) IN
    CASE o.kind = "return" ->
           [t EXCEPT !.pc = "unwind",
                     !.ctx.response =
                       IF c.requestId # Undefined
                         THEN createJsonRpcResponse(c.requestId, o.result)
                         ELSE @]
      [] o.kind = "throw" ->
           [t EXCEPT !.pc = "unwind", !.error = o.error, !.threw = TRUE]
      [] OTHER ->
           [t EXCEPT !.pc = "handler", !.pending = o,
                     !.invoked = Append(@, [of |-> o.of, handler |-> o.handler,
                                            args |-> o.args, uri |-> o.uri,
                                            vars |-> o.vars])]

dispatchStopsEarly(c, i) ==
  IF i < Len(middlewares) /\ i < 1
    THEN [c EXCEPT !.pc = "middleware",
                   !.stack = Append(@, [i |-> i,
                                        middleware |-> middlewares[i + 1]]),
                   !.trace = Append(@, Event("pre", i, middlewares[i + 1]))]
    ELSE tail(c)
dispatchNotFoundFirst(c, i) ==
  IF i < Len(middlewares) /\ c.handler # Undefined
    THEN [c EXCEPT !.pc = "middleware",
                   !.stack = Append(@, [i |-> i,
                                        middleware |-> middlewares[i + 1]]),
                   !.trace = Append(@, Event("pre", i, middlewares[i + 1]))]
    ELSE tail(c)
dispatchReversed(c, i) ==
  IF i < Len(middlewares)
    THEN [c EXCEPT !.pc = "middleware",
                   !.stack = Append(@, [i |-> i,
                                        middleware |->
                                          middlewares[Len(middlewares) - i]]),
                   !.trace = Append(@, Event("pre", i,
                                       middlewares[Len(middlewares) - i]))]
    ELSE tail(c)
\* lines 58-69: dispatch(i) of runMiddlewares, up to the first suspension of
\* the middleware or of the tail
dispatch(c, i) ==
  IF i < Len(middlewares)
    THEN [c EXCEPT !.pc = "middleware",
                   !.stack = Append(@, [i |-> i,
                                        middleware |-> middlewares[i + 1]]),
                   !.trace = Append(@, Event("pre", i, middlewares[i + 1]))]
    ELSE tail(c)

marksInitializedEarly(c, i) ==
  /\ i >= Len(middlewares)
  /\ c.handler = "handleInitialize"
\* line 1031: whether running dispatch(i) on c marks the server initialized
marksInitialized(c, i) ==
  /\ i >= Len(middlewares)
  /\ c.handler = "handleInitialize"
  /\ handleInitialize(c.message.params).kind = "return"

errorToResponseNullId(err, requestId) ==
  IF requestId = Undefined THEN Null
  ELSE createJsonRpcError("null",
         toJson(IF err.type = "RpcError" THEN err
                ELSE RpcError(INTERNAL_ERROR, "Internal error")))
\* lines 73-96
errorToResponse(err, requestId) ==
  IF requestId = Undefined THEN Null
  ELSE IF err.type = "RpcError"
    THEN createJsonRpcError(requestId, toJson(err))
  ELSE createJsonRpcError(requestId,
         toJson(RpcErrorData(INTERNAL_ERROR, "Internal error",
                  IF err.type = "Error"
                    THEN [message |-> err.message, stack |-> err.stack]
                    ELSE err)))

\* lines 764-777: what _dispatch returns when the chain ended normally
finalizeNoSynthesis(c) ==
  IF c.requestId = Undefined THEN Null ELSE c.ctx.response
finalizeNull(c) ==
  IF c.requestId = Undefined \/ ~isObject(c.ctx.response)
    THEN Null ELSE c.ctx.response
finalizeNotification(c) ==
  IF ~isObject(c.ctx.response)
    THEN createJsonRpcError(c.requestId,
           toJson(RpcError(INTERNAL_ERROR, "No response generated")))
  ELSE c.ctx.response
finalize(c) ==
  IF c.requestId = Undefined THEN Null
  ELSE IF ~isObject(c.ctx.response)
    THEN createJsonRpcError(c.requestId,
           toJson(RpcError(INTERNAL_ERROR, "No response generated")))
  ELSE c.ctx.response

----------------------------------------------------------------------------
(* The steps of one _dispatch call, d being its slot.                      *)

Top(c) == c.stack[Len(c.stack)]
Pop(c) == SubSeq(c.stack, 1, Len(c.stack) - 1)
Threw0(c) == isObject(c.error)

\* _dispatch(message) up to the first suspension: lines 703-762
DispatchStartWith(d, message, contextOptions) ==
  /\ calls[d].pc \in {"idle", "done"}
  /\ calls' = [calls EXCEPT ![d] =
                 dispatch(newCallWith(message, contextOptions), 0)]
  /\ initialized' =
       (initialized
          \/ marksInitialized(newCallWith(message, contextOptions), 0))
  /\ UNCHANGED <<middlewares, capabilities, onErrorHandler, schemaAdapter,
                 tools, prompts, resources, registered>>
  /\ UNCHANGED <<notificationSender, sent>>

\* _dispatch(message): contextOptions is {}
DispatchStart(d, message) == DispatchStartWith(d, message, NoContextOptions)

\* the running middleware calls next(): line 62, () => dispatch(i + 1)
MiddlewareNext(d) ==
  /\ calls[d].pc = "middleware"
  /\ calls' = [calls EXCEPT ![d] = dispatch(calls[d], Top(calls[d]).i + 1)]
  /\ initialized' = (initialized
                       \/ marksInitialized(calls[d], Top(calls[d]).i + 1))
  /\ UNCHANGED <<middlewares, capabilities, onErrorHandler, schemaAdapter,
                 tools, prompts, resources, registered>>
  /\ UNCHANGED <<notificationSender, sent>>

\* the running middleware returns without calling next()
MiddlewareSkip(d) ==
  /\ calls[d].pc = "middleware"
  /\ calls' = [calls EXCEPT
       ![d].pc = "unwind", ![d].stack = Pop(calls[d]),
       ![d].trace = Append(@, Event("skip", Top(calls[d]).i,
                                    Top(calls[d]).middleware))]
  /\ UNCHANGED <<server, registered, sent>>

\* the running middleware or handler writes ctx.state[key] = value
WriteStateShared(d, key, value) ==
  /\ calls[d].pc \in {"middleware", "handler"}
  /\ calls[d].ctx.state[key] # value
  /\ calls' = [e \in Slots |->
                 IF isObject(calls[e].ctx)
                   THEN [calls[e] EXCEPT !.ctx.state[key] = value]
                   ELSE calls[e]]
  /\ UNCHANGED <<server, registered, sent>>
WriteState(d, key, value) ==
  /\ calls[d].pc \in {"middleware", "handler"}
  /\ calls[d].ctx.state[key] # value
  /\ calls' = [calls EXCEPT ![d].ctx.state[key] = value]
  /\ UNCHANGED <<server, registered, sent>>

MiddlewareRespondShared(d, response) ==
  /\ calls[d].pc = "middleware"
  /\ calls' = [e \in Slots |->
       IF e = d
         THEN [calls[d] EXCEPT
                 !.pc = "unwind", !.stack = Pop(calls[d]),
                 !.ctx.response = response,
                 !.trace = Append(@, Event("skip", Top(calls[d]).i,
                                           Top(calls[d]).middleware))]
       ELSE IF isObject(calls[e].ctx)
         THEN [calls[e] EXCEPT !.ctx.response = response]
       ELSE calls[e]]
  /\ UNCHANGED <<server, registered, sent>>
\* the running middleware writes ctx.response and returns without next()
MiddlewareRespond(d, response) ==
  /\ calls[d].pc = "middleware"
  /\ calls' = [calls EXCEPT
       ![d].pc = "unwind", ![d].stack = Pop(calls[d]),
       ![d].ctx.response = response,
       ![d].trace = Append(@, Event("skip", Top(calls[d]).i,
                                    Top(calls[d]).middleware))]
  /\ UNCHANGED <<server, registered, sent>>

\* the running middleware throws before calling next()
MiddlewareThrow(d, err) ==
  /\ calls[d].pc = "middleware"
  /\ calls' = [calls EXCEPT
       ![d].pc = "unwind", ![d].stack = Pop(calls[d]),
       ![d].error = err, ![d].threw = TRUE]
  /\ UNCHANGED <<server, registered, sent>>

\* the tool, prompt or resource handler returns: lines 843, 892, 993, then
\* lines 755-758
HandlerReturn(d) ==
  /\ calls[d].pc = "handler"
  /\ calls' = [calls EXCEPT
       ![d].pc = "unwind",
       ![d].pending = NotAnObject,
       ![d].ctx.response =
         IF calls[d].requestId # Undefined
           THEN createJsonRpcResponse(calls[d].requestId,
                  [by |-> calls[d].pending.handler,
                   args |-> calls[d].pending.args,
                   uri |-> calls[d].pending.uri,
                   vars |-> calls[d].pending.vars])
           ELSE @]
  /\ UNCHANGED <<server, registered, sent>>

progressCallStickySender(bound, update) ==
  [to |-> IF sent # <<>> THEN sent[1].to ELSE notificationSender,
   sessionId |-> bound.sessionId,
   notification |->
     [method |-> "notifications/progress",
      params |-> update @@ [progressToken |-> bound.progressToken]],
   options |-> [relatedRequestId |-> bound.requestId]]
progressCallShared(bound, update) ==
  LET running == CHOOSE e \in Slots : calls[e].pc = "handler" IN
  [to |-> notificationSender,
   sessionId |-> calls[running].ctx.sessionId,
   notification |->
     [method |-> "notifications/progress",
      params |-> update
                   @@ [progressToken |-> calls[running].ctx.progressToken]],
   options |-> [relatedRequestId |-> calls[running].requestId]]
\* lines 715-726: the call of this.notificationSender the bound sender makes
\* for one update; the update's keys are spread over {progressToken}
progressCall(bound, update) ==
  [to |-> notificationSender,
   sessionId |-> bound.sessionId,
   notification |->
     [method |-> "notifications/progress",
      params |-> update @@ [progressToken |-> bound.progressToken]],
   options |-> [relatedRequestId |-> bound.requestId]]

\* the suspended handler of call d calls ctx.progress(update)
Progress(d, update) ==
  /\ calls[d].pc = "handler"
  /\ isObject(calls[d].ctx.progress)
  /\ Len(sent) < MaxSent
  /\ sent' = IF notificationSender # Undefined
               THEN Append(sent, progressCall(calls[d].ctx.progress, update))
               ELSE sent
  /\ calls' = [calls EXCEPT ![d].emitted = Append(@, update)]
  /\ UNCHANGED <<server, registered>>

\* lines 995-1004: handleResourcesRead rethrows an RpcError and wraps
\* anything else
wrapResourceError(err) ==
  IF err.type = "RpcError" THEN err
  ELSE RpcErrorData(INTERNAL_ERROR, "Internal error",
         IF err.type = "Error" THEN [message |-> err.message] ELSE err)

\* the tool, prompt or resource handler throws
HandlerThrow(d, err) ==
  /\ calls[d].pc = "handler"
  /\ calls' = [calls EXCEPT
       ![d].pc = "unwind",
       ![d].pending = NotAnObject,
       ![d].threw = TRUE,
       ![d].handlerThrew = err,
       ![d].error = IF calls[d].pending.of = "resource"
                      THEN wrapResourceError(err) ELSE err]
  /\ UNCHANGED <<server, registered, sent>>

\* next() has resolved and the middleware's code after it runs and returns
PostReturn(d) ==
  /\ calls[d].pc = "unwind" /\ calls[d].stack # <<>> /\ ~Threw0(calls[d])
  /\ calls' = [calls EXCEPT
       ![d].stack = Pop(calls[d]),
       ![d].trace = Append(@, Event("post", Top(calls[d]).i,
                                    Top(calls[d]).middleware))]
  /\ UNCHANGED <<server, registered, sent>>

\* ... runs and writes ctx.response
PostRespond(d, response) ==
  /\ calls[d].pc = "unwind" /\ calls[d].stack # <<>> /\ ~Threw0(calls[d])
  /\ calls' = [calls EXCEPT
       ![d].stack = Pop(calls[d]),
       ![d].ctx.response = response,
       ![d].trace = Append(@, Event("post", Top(calls[d]).i,
                                    Top(calls[d]).middleware))]
  /\ UNCHANGED <<server, registered, sent>>

\* ... runs and throws
PostThrow(d, err) ==
  /\ calls[d].pc = "unwind" /\ calls[d].stack # <<>> /\ ~Threw0(calls[d])
  /\ calls' = [calls EXCEPT
       ![d].stack = Pop(calls[d]),
       ![d].error = err,
       ![d].threw = TRUE,
       ![d].trace = Append(@, Event("post", Top(calls[d]).i,
                                    Top(calls[d]).middleware))]
  /\ UNCHANGED <<server, registered, sent>>

\* next() has rejected and the middleware, which does not catch, rejects too
Propagate(d) ==
  /\ calls[d].pc = "unwind" /\ calls[d].stack # <<>> /\ Threw0(calls[d])
  /\ calls' = [calls EXCEPT ![d].stack = Pop(calls[d])]
  /\ UNCHANGED <<server, registered, sent>>

\* next() has rejected and the middleware catches the error and returns
Catch(d) ==
  /\ calls[d].pc = "unwind" /\ calls[d].stack # <<>> /\ Threw0(calls[d])
  /\ calls' = [calls EXCEPT
       ![d].stack = Pop(calls[d]),
       ![d].error = NotAnObject,
       ![d].trace = Append(@, Event("post", Top(calls[d]).i,
                                    Top(calls[d]).middleware))]
  /\ UNCHANGED <<server, registered, sent>>

SettleHookFirst(d) ==
  /\ calls[d].pc = "unwind" /\ calls[d].stack = <<>>
  /\ calls' = [calls EXCEPT ![d] =
       IF ~Threw0(calls[d])
         THEN [@ EXCEPT !.pc = "done", !.ret = finalize(calls[d])]
       ELSE IF onErrorHandler # Undefined
         THEN [@ EXCEPT !.pc = "onError",
                        !.trace = Append(@, Event("onError", 0,
                                                  onErrorHandler))]
       ELSE [@ EXCEPT !.pc = "done",
                      !.ret = errorToResponse(calls[d].error,
                                              calls[d].requestId)]]
  /\ UNCHANGED <<server, registered, sent>>
\* runMiddlewares has settled: lines 764-794, up to the onError hook's call
Settle(d) ==
  /\ calls[d].pc = "unwind" /\ calls[d].stack = <<>>
  /\ calls' = [calls EXCEPT ![d] =
       IF ~Threw0(calls[d])
         THEN [@ EXCEPT !.pc = "done", !.ret = finalize(calls[d])]
       ELSE IF calls[d].requestId = Undefined
         THEN [@ EXCEPT !.pc = "done", !.ret = Null]
       ELSE IF onErrorHandler # Undefined
         THEN [@ EXCEPT !.pc = "onError",
                        !.trace = Append(@, Event("onError", 0,
                                                  onErrorHandler))]
       ELSE [@ EXCEPT !.pc = "done",
                      !.ret = errorToResponse(calls[d].error,
                                              calls[d].requestId)]]
  /\ UNCHANGED <<server, registered, sent>>

\* the onError hook returns customError (NotAnObject: returns nothing):
\* lines 785-794
OnErrorReturn(d, customError) ==
  /\ calls[d].pc = "onError"
  /\ calls' = [calls EXCEPT
       ![d].pc = "done",
       ![d].onErrorResult = [returned |-> customError],
       ![d].ret = IF isObject(customError)
                    THEN createJsonRpcError(calls[d].requestId, customError)
                    ELSE errorToResponse(calls[d].error, calls[d].requestId)]
  /\ UNCHANGED <<server, registered, sent>>

OnErrorThrowRethrown(d) ==
  /\ calls[d].pc = "onError"
  /\ calls' = [calls EXCEPT
       ![d].pc = "done",
       ![d].onErrorResult = [threw |-> TRUE],
       ![d].ret = errorToResponse(ForeignError("onError failed"),
                                  calls[d].requestId)]
  /\ UNCHANGED <<server, registered, sent>>
\* the onError hook throws: lines 789-794
OnErrorThrow(d) ==
  /\ calls[d].pc = "onError"
  /\ calls' = [calls EXCEPT
       ![d].pc = "done",
       ![d].onErrorResult = [threw |-> TRUE],
       ![d].ret = errorToResponse(calls[d].error, calls[d].requestId)]
  /\ UNCHANGED <<server, registered, sent>>

----------------------------------------------------------------------------
(* The inputs the specifications draw from.                                *)

RequestIds == {"id0", "id1"}
Middlewares == {"A", "B"}
ToolNames == {"t1", "t2"}
PromptNames == {"p1"}
Handlers == {"h1", "h2"}
\* a static resource and a template
Templates == {<<"r", "a">>, <<"r", "{x}">>}
\* a static resource and two templates that both match r/a
RoutingTemplates == {<<"r", "a">>, <<"r", "{x}">>, <<"{y}", "a">>}
\* two prompts, and two static resources and two templates, to be listed
ListingPromptNames == {"p1", "p2"}
ListingTemplates ==
  {<<"r", "a">>, <<"r", "b">>, <<"r", "{x}">>, <<"{y}", "a">>}
\* a template of two variables, and a template of one
ValidateTemplates == {<<"{x}", "{y}">>, <<"r", "{x}">>}

\* what a middleware may write to ctx.response: a response of either shape
WrittenResponses ==
  {createJsonRpcResponse(id, [by |-> "middleware"]) : id \in RequestIds}
    \cup {createJsonRpcError(id, [code |-> -32001, message |-> "denied"]) :
            id \in RequestIds}

MiddlewareErrors == {ForeignError("middleware failed")}
HandlerErrors ==
  {RpcErrorData(-32002, "handler refused", [why |-> "refused"]),
   ForeignError("handler failed"), RawThrow("boom")}
\* the {code, message, data?} objects an onError hook returns
CustomErrors == {[code |-> -32001, message |-> "custom"]}

Request(id, method, params) ==
  [id |-> id, method |-> method, params |-> params]

InitializeParams(version) ==
  [protocolVersion |-> version, capabilities |-> <<>>,
   clientInfo |-> [name |-> "client", version |-> "0"]]

CallParams(name, v) == [name |-> name, arguments |-> Raw(v)]

\* the server a constructor call leaves behind: lines 234-296
InitWith(adapters) ==
  /\ initialized = FALSE
  /\ middlewares = <<>>
  /\ capabilities = <<>>
  /\ onErrorHandler = Undefined
  /\ schemaAdapter \in adapters
  /\ tools = <<>>
  /\ prompts = <<>>
  /\ resources = <<>>
  /\ notificationSender = Undefined
  /\ calls = [d \in Slots |-> Idle]
  /\ sent = <<>>
  /\ registered = [tools |-> [n \in ToolNames |-> NeverRegistered],
                   prompts |-> [n \in PromptNames \cup ListingPromptNames |->
                                 NeverRegistered],
                   resources |-> [t \in Templates \cup RoutingTemplates
                                          \cup ListingTemplates
                                          \cup ValidateTemplates |->
                                   NeverRegistered],
                   order |-> [tools |-> <<>>, prompts |-> <<>>,
                              resources |-> <<>>],
                   replaced |-> FALSE]

\* the steps of the dispatch in slot d
Step(d) ==
  \/ MiddlewareNext(d)
  \/ MiddlewareSkip(d)
  \/ \E r \in WrittenResponses : MiddlewareRespond(d, r)
  \/ \E e \in MiddlewareErrors : MiddlewareThrow(d, e)
  \/ HandlerReturn(d)
  \/ \E e \in HandlerErrors : HandlerThrow(d, e)
  \/ PostReturn(d)
  \/ \E r \in WrittenResponses : PostRespond(d, r)
  \/ \E e \in MiddlewareErrors : PostThrow(d, e)
  \/ Propagate(d)
  \/ Catch(d)
  \/ Settle(d)
  \/ \E e \in CustomErrors \cup {NotAnObject} : OnErrorReturn(d, e)
  \/ OnErrorThrow(d)

(* Specification Spec: one dispatch at a time through the middleware chain, *)
(* with use(), onError() and tool() called at any suspension point.         *)

Messages ==
  {Request(id, m, NotAnObject) :
     id \in RequestIds \cup {Undefined},
     m \in {"ping", "no/such", "tools/list"}}
    \cup {Request(id, "tools/call", CallParams("t1", v)) :
            id \in RequestIds \cup {Undefined}, v \in {"good", "bad"}}

ToolDefs ==
  {[description |-> Undefined, inputSchema |-> s, handler |-> "h1"] :
     s \in {NotAnObject, StandardSchema("v1")}}

Init == InitWith({Undefined})

Next ==
  \/ \E m \in Middlewares : use(m)
  \/ \E h \in {"e1"} : onError(h)
  \/ \E def \in ToolDefs : tool("t1", def)
  \/ \E m \in Messages : DispatchStart(1, m)
  \/ Step(1)

Spec == Init /\ [][Next]_vars

(* Specification SpecRegistry: tool(), prompt() and resource() called in   *)
(* any order, any number of times, also while a dispatch is suspended in   *)
(* its handler; no middleware and no onError hook.                         *)

RegistryToolDefs ==
  {[description |-> Undefined, inputSchema |-> NotAnObject, handler |-> "h1"],
   [description |-> "d1", inputSchema |-> StandardSchema("v1"),
    handler |-> "h2"]}

RegistryPromptDefs ==
  {[title |-> Undefined, description |-> Undefined,
    arguments |-> NotAnObject, inputSchema |-> NotAnObject, handler |-> "h1"],
   [title |-> "T", description |-> "d1",
    arguments |-> NotAnObject, inputSchema |-> StandardSchema("v1"),
    handler |-> "h2"]}

\* resource(template, meta, handler) and
\* resource(template, meta, validators, handler)
RegistryResourceDefs ==
  {[meta |-> [name |-> "m1"], validatorsOrHandler |-> "h1",
    handler |-> Undefined],
   [meta |-> [name |-> "m2"],
    validatorsOrHandler |-> [list |-> <<[key |-> "x", validator |-> "v1"]>>],
    handler |-> "h2"]}

RegistryMessages ==
  {Request("id0", m, NotAnObject) :
     m \in {"tools/list", "prompts/list", "resources/list",
            "resources/templates/list"}}
    \cup {Request("id0", "initialize", InitializeParams(v)) :
            v \in {SUPPORTED_MCP_PROTOCOL_VERSION, "1999-01-01"}}
    \cup {Request("id0", "tools/call", CallParams("t1", v)) :
            v \in {"good", "bad"}}
    \cup {Request("id0", "prompts/get", CallParams("p1", "good"))}
    \cup {Request("id0", "resources/read", [uri |-> u]) :
            u \in {<<"r", "a">>, <<"r", "b">>}}

InitRegistry == InitWith({"adapter"})

NextRegistry ==
  \/ \E n \in ToolNames, def \in RegistryToolDefs : tool(n, def)
  \/ \E n \in PromptNames, def \in RegistryPromptDefs : prompt(n, def)
  \/ \E t \in Templates, def \in RegistryResourceDefs :
       resource(t, def.meta, def.validatorsOrHandler, def.handler)
  \/ \E m \in RegistryMessages : DispatchStart(1, m)
  \/ HandlerReturn(1)
  \/ \E e \in {ForeignError("handler failed")} : HandlerThrow(1, e)
  \/ Settle(1)

SpecRegistry == InitRegistry /\ [][NextRegistry]_vars

----------------------------------------------------------------------------
(* Properties of Spec.                                                     *)

Done(d) == calls[d].pc = "done"
IsRequest(d) == calls[d].message.id # Undefined
Ran(c, ev) == \E k \in 1..Len(c.trace) : c.trace[k].ev = ev
NoResponseGenerated(id) ==
  createJsonRpcError(id, [code |-> INTERNAL_ERROR,
                          message |-> "No response generated"])

\* C1: a _dispatch call of a request returns once, and what it returns is a
\* response object (not null) with a result or an error, never both and never
\* neither, whatever the middlewares, the handler and the onError hook did.
C1_OneWellFormedResponse ==
  \A d \in Slots :
    /\ ~Done(d) => calls[d].ret = NotAnObject
    /\ Done(d) /\ IsRequest(d) =>
         /\ calls[d].ret # Null
         /\ isObject(calls[d].ret)
         /\ ("result" \in DOMAIN calls[d].ret)
              # ("error" \in DOMAIN calls[d].ret)

\* a request whose handler threw and whose error the onError hook replaced
C1_Witness ==
  \E d \in Slots :
    /\ Done(d) /\ IsRequest(d)
    /\ calls[d].invoked # <<>> /\ Ran(calls[d], "onError")
    /\ "error" \in DOMAIN calls[d].ret
    /\ calls[d].ret.error.message = "custom"

\* C2 as stated: the response of every request carries the request's id, on
\* every path, a response written by a middleware included.
C2_Original ==
  \A d \in Slots :
    Done(d) /\ IsRequest(d) => calls[d].ret.id = calls[d].message.id

\* C2, amended: the response carries the request's id on every path on which
\* the dispatcher or the tail builds it; a response a middleware wrote to
\* ctx.response is returned as the middleware wrote it.
C2_IdCopiedUnlessMiddlewareWrote ==
  \A d \in Slots :
    Done(d) /\ IsRequest(d) =>
      \/ calls[d].ret.id = calls[d].message.id
      \/ /\ calls[d].ret \in WrittenResponses
         /\ calls[d].ret = calls[d].ctx.response
         /\ ~isObject(calls[d].error)

\* a request whose thrown error went through the default mapping
C2_Witness ==
  \E d \in Slots :
    /\ Done(d) /\ IsRequest(d) /\ isObject(calls[d].error)
    /\ "error" \in DOMAIN calls[d].ret
    /\ calls[d].ret.error.message = "Internal error"
    /\ calls[d].ret.id = calls[d].message.id

\* C3: a _dispatch call of a notification returns null on every path, and
\* neither the tail nor the dispatcher builds a response object for it.
C3_NotificationReturnsNull ==
  \A d \in Slots :
    /\ Done(d) /\ ~IsRequest(d) => calls[d].ret = Null
    /\ calls[d].pc # "idle" /\ ~IsRequest(d) =>
         calls[d].ctx.response \in WrittenResponses \cup {NotAnObject}

\* a notification whose tool handler was called and threw
C3_Witness ==
  \E d \in Slots :
    /\ Done(d) /\ ~IsRequest(d)
    /\ calls[d].invoked # <<>> /\ isObject(calls[d].error)

IsOnion(e) == e.ev \in {"pre", "tail", "post"}
IsPre(e) == e.ev = "pre"
IsPost(e) == e.ev = "post"
\* the pre, tail and post events of a call, in the order they happened
Onion(c) == SelectSeq(c.trace, IsOnion)

\* C4: in one dispatch the middlewares' code before next() runs in
\* registration order, the tail runs at most once and after all of it, and
\* the code after next() runs in reverse registration order; when every
\* middleware called next() and nothing threw, the whole trace is
\* pre 0 .. pre n-1, tail, post n-1 .. post 0.
C4_OnionOrder ==
  \A d \in Slots :
    LET t == Onion(calls[d])
        n == Len(SelectSeq(t, IsPre))
        posts == SelectSeq(t, IsPost)
    IN /\ n <= Len(middlewares)
       /\ \A k \in 1..n : t[k] = Event("pre", k - 1, middlewares[k])
       /\ \A k \in 1..Len(t) : t[k].ev = "tail" => k = n + 1
       /\ \A k \in 1..Len(posts) :
            /\ posts[k].i < n
            /\ posts[k].who = middlewares[posts[k].i + 1]
            /\ k > 1 => posts[k].i < posts[k - 1].i
       /\ Done(d) /\ Ran(calls[d], "tail") /\ ~calls[d].threw =>
            /\ Len(t) = 2 * n + 1
            /\ \A k \in 1..n :
                 t[n + 1 + k] = Event("post", n - k, middlewares[n - k + 1])

\* middlewares [A, B]: A-pre, B-pre, tail, B-post, A-post
C4_Witness ==
  \E d \in Slots :
    /\ Done(d)
    /\ calls[d].trace = <<Event("pre", 0, "A"), Event("pre", 1, "B"),
                          Event("tail", 2, "tail"),
                          Event("post", 1, "B"), Event("post", 0, "A")>>

\* the index of the middleware that returned without calling next()
Skipped(c) == {c.trace[k].i : k \in {j \in 1..Len(c.trace) :
                                       c.trace[j].ev = "skip"}}

\* C5 as stated: after a middleware returned without calling next(), a
\* request always gets the error response 'No response generated'.
C5_Original ==
  \A d \in Slots :
    Done(d) /\ IsRequest(d) /\ Skipped(calls[d]) # {} =>
      calls[d].ret = NoResponseGenerated(calls[d].message.id)

\* C5, amended: after a middleware returned without calling next(), neither
\* the tail nor a later middleware runs; a notification gets null; a request
\* gets 'No response generated' unless a middleware wrote ctx.response (that
\* response is returned) or an outer middleware threw afterwards (the error
\* response of the throw is returned).
C5_SkipStopsChain ==
  \A d \in Slots :
    LET c == calls[d] IN
    Skipped(c) # {} =>
      /\ ~Ran(c, "tail") /\ c.invoked = <<>>
      /\ \A k \in 1..Len(c.trace) :
           c.trace[k].ev = "pre" => \A i \in Skipped(c) : c.trace[k].i <= i
      /\ Done(d) /\ ~IsRequest(d) => c.ret = Null
      /\ Done(d) /\ IsRequest(d) =>
           IF isObject(c.error)
             THEN /\ "error" \in DOMAIN c.ret
                  /\ c.ret # NoResponseGenerated(c.message.id)
           ELSE IF isObject(c.ctx.response) THEN c.ret = c.ctx.response
           ELSE c.ret = NoResponseGenerated(c.message.id)

\* middlewares [A, B], B returned without next(), nobody wrote a response
C5_Witness ==
  \E d \in Slots :
    /\ Done(d) /\ IsRequest(d)
    /\ calls[d].trace = <<Event("pre", 0, "A"), Event("pre", 1, "B"),
                          Event("skip", 1, "B"), Event("post", 0, "A")>>
    /\ calls[d].ret = NoResponseGenerated(calls[d].message.id)

----------------------------------------------------------------------------
(* Properties of SpecRegistry.                                             *)

\* the step in which the tail of call d's chain runs: the method handler is
\* looked up and runs up to its first suspension
TailRuns(d) ==
  /\ calls[d].pc \in {"idle", "done", "middleware"}
  /\ calls'[d].pc \in {"unwind", "handler"}
  /\ calls'[d].trace # <<>>
  /\ calls'[d].trace[Len(calls'[d].trace)].ev = "tail"

\* a step of the call in slot d after its start
CallSteps(d) ==
  /\ calls[d].pc \notin {"idle", "done"}
  /\ calls'[d] # calls[d]

\* the positions of a listing that carry the name n
Listed(listing, n) == {i \in 1..Len(listing) : listing[i].name = n}

RegisteredTools == {n \in ToolNames : registered.tools[n].registered}
RegisteredPrompts ==
  {n \in DOMAIN registered.prompts : registered.prompts[n].registered}
RegisteredResources ==
  {t \in DOMAIN registered.resources : registered.resources[t].registered}

\* C6: whenever tools/list runs, after any sequence of tool() registrations,
\* its result has one element per registered tool name: a registered name is
\* listed exactly once, with the metadata of its latest registration, and a
\* name never registered is not listed.
C6_ToolsListedOnce ==
  [][\A d \in Slots :
       (/\ TailRuns(d)
        /\ calls'[d].handler = "handleToolsList"
        /\ calls'[d].requestId # Undefined)
       => LET listed == calls'[d].ctx.response.result.tools IN
          /\ Len(listed) = Cardinality(RegisteredTools)
          /\ \A n \in ToolNames :
               IF n \in RegisteredTools
                 THEN /\ Cardinality(Listed(listed, n)) = 1
                      /\ \A i \in Listed(listed, n) :
                           listed[i] = ToolMetadata(n, registered.tools[n].def,
                                                    schemaAdapter)
                 ELSE Listed(listed, n) = {}]_vars

\* tools/list answered with two names after a name was registered again
C6_Witness ==
  \E d \in Slots :
    /\ Done(d) /\ calls[d].handler = "handleToolsList"
    /\ "result" \in DOMAIN calls[d].ret
    /\ Len(calls[d].ret.result.tools) = 2
    /\ calls[d].ret.result.tools[1].name # calls[d].ret.result.tools[2].name
    /\ registered.replaced /\ prompts = <<>> /\ resources = <<>>

\* the params of a tools/call or prompts/get message name a registered entry
CallsRegistered(c, names) ==
  isObject(c.message.params) /\ c.message.params.name \in names

\* C7: tools/call with the name of a registered tool T calls T.handler at
\* most once and only after validation.  With a validator: accepted arguments
\* reach the handler as the validator's output; rejected arguments make the
\* tail throw INVALID_PARAMS without calling the handler, and the request's
\* response is that INVALID_PARAMS error.  Without a validator the handler
\* gets the raw arguments.  No other step calls a handler.
C7_HandlerAfterValidation ==
  /\ [][\A d \in Slots :
          /\ Len(calls'[d].invoked) > Len(calls[d].invoked) => TailRuns(d)
          /\ Len(calls'[d].invoked) <= 1
          /\ (/\ TailRuns(d)
              /\ calls'[d].handler = "handleToolsCall"
              /\ CallsRegistered(calls'[d], RegisteredTools))
             => LET c == calls'[d]
                    T == registered.tools[c.message.params.name].def
                    validator == ToolEntry(c.message.params.name, T,
                                           schemaAdapter).validator
                    raw == c.message.params.arguments
                IN IF validator = Undefined
                     THEN /\ c.pc = "handler"
                          /\ Len(c.invoked) = 1
                          /\ c.invoked[1].handler = T.handler
                          /\ c.invoked[1].args = raw
                          /\ ~c.invoked[1].args.validated
                   ELSE IF Accepts(validator, raw)
                     THEN /\ c.pc = "handler"
                          /\ Len(c.invoked) = 1
                          /\ c.invoked[1].handler = T.handler
                          /\ c.invoked[1].args.validated
                          /\ c.invoked[1].args.by = validator
                          /\ c.invoked[1].args.v = raw.v
                   ELSE /\ c.pc = "unwind"
                        /\ c.invoked = <<>>
                        /\ isObject(c.error)
                        /\ c.error.type = "RpcError"
                        /\ c.error.code = INVALID_PARAMS]_vars
  /\ [](\A d \in Slots :
          (/\ Done(d) /\ IsRequest(d)
           /\ calls[d].handler = "handleToolsCall"
           /\ isObject(calls[d].error)
           /\ calls[d].error.message = "Validation failed")
          => /\ calls[d].invoked = <<>>
             /\ "error" \in DOMAIN calls[d].ret
             /\ calls[d].ret.id = calls[d].message.id
             /\ calls[d].ret.error.code = INVALID_PARAMS)

\* a request whose arguments the tool's validator rejected
C7_Witness ==
  \E d \in Slots :
    /\ Done(d) /\ IsRequest(d)
    /\ calls[d].handler = "handleToolsCall"
    /\ calls[d].message.params.arguments = Raw("bad")
    /\ calls[d].invoked = <<>>
    /\ "error" \in DOMAIN calls[d].ret
    /\ calls[d].ret.error.code = INVALID_PARAMS
    /\ calls[d].ret.error.message = "Validation failed"

\* the call either stopped at a failed validation or called handler h, once
RoutesTo(c, of, h) ==
  \/ /\ c.invoked = <<>> /\ c.pc = "unwind"
     /\ isObject(c.error) /\ c.error.code = INVALID_PARAMS
  \/ /\ Len(c.invoked) = 1 /\ c.pc = "handler"
     /\ c.invoked[1].of = of /\ c.invoked[1].handler = h

\* the registrations resources/read of uri may route to: the static resource
\* registered under the uri itself, else the registered templates it matches
ResourceKeys(uri) ==
  IF uri \in RegisteredResources /\ ~includesBrace(uri)
    THEN {uri}
    ELSE {t \in RegisteredResources :
            /\ includesBrace(t)
            /\ isObject(match(compileUriTemplate(t), uri))}

\* C8: registering under a name or template that is already registered
\* replaces the entry.  Whenever tools/call, prompts/get or resources/read
\* runs, the only handler it calls is the handler of the latest registration
\* of the name or template it resolves to (an earlier handler is never called
\* again), and whenever a listing runs, each of its elements is the metadata of
\* the latest registration of its name or template.
C8_LastRegistrationWins ==
  [][\A d \in Slots : TailRuns(d) =>
       LET c == calls'[d] IN
       /\ (c.handler = "handleToolsCall"
             /\ CallsRegistered(c, RegisteredTools))
            => RoutesTo(c, "tool",
                        registered.tools[c.message.params.name].def.handler)
       /\ (c.handler = "handlePromptsGet"
             /\ CallsRegistered(c, RegisteredPrompts))
            => RoutesTo(c, "prompt",
                        registered.prompts[c.message.params.name].def.handler)
       /\ (c.handler = "handleResourcesRead"
             /\ ResourceKeys(c.message.params.uri) # {})
            => \E t \in ResourceKeys(c.message.params.uri) :
                 RoutesTo(c, "resource", registered.resources[t].handler)
       /\ c.handler = "handleToolsList"
            => \A i \in 1..Len(c.ctx.response.result.tools) :
                 LET m == c.ctx.response.result.tools[i] IN
                 /\ m.name \in RegisteredTools
                 /\ m = ToolMetadata(m.name, registered.tools[m.name].def,
                                     schemaAdapter)
       /\ c.handler = "handlePromptsList"
            => \A i \in 1..Len(c.ctx.response.result.prompts) :
                 LET m == c.ctx.response.result.prompts[i] IN
                 /\ m.name \in RegisteredPrompts
                 /\ m.description = registered.prompts[m.name].def.description
                 /\ m = PromptEntry(m.name, registered.prompts[m.name].def,
                                    schemaAdapter).metadata
       /\ c.handler = "handleResourcesList"
            => \A i \in 1..Len(c.ctx.response.result.resources) :
                 LET m == c.ctx.response.result.resources[i] IN
                 /\ m.uri \in RegisteredResources
                 /\ m.name = registered.resources[m.uri].meta.name
       /\ c.handler = "handleResourceTemplatesList"
            => \A i \in 1..Len(c.ctx.response.result.resourceTemplates) :
                 LET m == c.ctx.response.result.resourceTemplates[i] IN
                 /\ m.uriTemplate \in RegisteredResources
                 /\ m.name = registered.resources[m.uriTemplate].meta.name]_vars

\* t1 is the only entry of the registry and was registered again with another
\* handler; tools/call of t1 was answered by the handler registered last
C8_Witness ==
  \E d \in Slots :
    /\ Done(d) /\ calls[d].handler = "handleToolsCall"
    /\ registered.replaced
    /\ MapKeys(tools) = <<"t1">> /\ prompts = <<>> /\ resources = <<>>
    /\ registered.tools["t1"].def.handler = "h2"
    /\ "result" \in DOMAIN calls[d].ret
    /\ calls[d].ret.result.by = "h2"

\* the capabilities say exactly which kinds have a registration
CapabilitiesReflect(caps) ==
  /\ ("tools" \in DOMAIN caps) <=> (RegisteredTools # {})
  /\ ("prompts" \in DOMAIN caps) <=> (RegisteredPrompts # {})
  /\ ("resources" \in DOMAIN caps) <=> (RegisteredResources # {})
  /\ "tools" \in DOMAIN caps => caps.tools = [listChanged |-> TRUE]
  /\ "prompts" \in DOMAIN caps => caps.prompts = [listChanged |-> TRUE]
  /\ "resources" \in DOMAIN caps => caps.resources = <<>>

\* C9: the capabilities in the result of a successful initialize hold
\* tools.listChanged = true exactly if a tool has been registered,
\* prompts.listChanged = true exactly if a prompt has been registered and
\* resources = {} exactly if a resource has been registered, and no step
\* removes or changes a capability that is set.
C9_CapabilitiesReflectRegistry ==
  /\ [](\A d \in Slots :
          (/\ calls[d].handler = "handleInitialize"
           /\ isObject(calls[d].ctx.response)
           /\ "result" \in DOMAIN calls[d].ctx.response)
          => CapabilitiesReflect(capabilitiesOf(calls[d].ctx.response.result)))
  /\ [][\A k \in DOMAIN capabilities :
          k \in DOMAIN capabilities' /\ capabilities'[k] = capabilities[k]]_vars

\* initialize answered by a server with tools and resources and no prompt
C9_Witness ==
  \E d \in Slots :
    /\ Done(d) /\ calls[d].handler = "handleInitialize"
    /\ "result" \in DOMAIN calls[d].ret
    /\ DOMAIN capabilitiesOf(calls[d].ret.result) = {"tools", "resources"}
    /\ capabilitiesOf(calls[d].ret.result).tools.listChanged
    /\ prompts = <<>>

\* the message of call c is an initialize whose protocolVersion is not the
\* supported one
VersionMismatch(c) ==
  /\ c.handler = "handleInitialize"
  /\ isInitializeParams(c.message.params)
  /\ c.message.params.protocolVersion # SUPPORTED_MCP_PROTOCOL_VERSION

\* C10: an initialize request with another protocolVersion than the supported
\* one throws error -32000 with data {supportedVersion, requestedVersion},
\* which is the error of its response, and no step of the call changes the
\* server: initialized, the registry and the capabilities stay as they were.
C10_VersionMismatchRejected ==
  /\ [][\A d \in Slots :
          /\ (TailRuns(d) /\ VersionMismatch(calls'[d]))
               => /\ calls'[d].pc = "unwind"
                  /\ calls'[d].error =
                       RpcErrorData(UNSUPPORTED_VERSION,
                         "Unsupported protocol version",
                         [supportedVersion |-> SUPPORTED_MCP_PROTOCOL_VERSION,
                          requestedVersion |->
                            calls'[d].message.params.protocolVersion])
                  /\ UNCHANGED <<server, registered>>
          /\ (CallSteps(d) /\ VersionMismatch(calls[d]))
               => UNCHANGED <<server, registered>>]_vars
  /\ [](\A d \in Slots :
          (Done(d) /\ IsRequest(d) /\ VersionMismatch(calls[d]))
          => /\ "error" \in DOMAIN calls[d].ret
             /\ calls[d].ret.id = calls[d].message.id
             /\ calls[d].ret.error.code = UNSUPPORTED_VERSION
             /\ calls[d].ret.error.data =
                  [supportedVersion |-> SUPPORTED_MCP_PROTOCOL_VERSION,
                   requestedVersion |->
                     calls[d].message.params.protocolVersion])

\* a server with a tool, not initialized, has rejected version 1999-01-01
C10_Witness ==
  \E d \in Slots :
    /\ Done(d) /\ IsRequest(d) /\ VersionMismatch(calls[d])
    /\ calls[d].ret.error.code = UNSUPPORTED_VERSION
    /\ calls[d].ret.error.data.requestedVersion = "1999-01-01"
    /\ ~initialized
    /\ tools # <<>> /\ "tools" \in DOMAIN capabilities

----------------------------------------------------------------------------
(* Specification SpecMethods: requests and notifications of methods in and *)
(* out of the method table, two dispatches in flight.                      *)

\* the keys the constructor puts in this.methods
MethodTable ==
  {"initialize", "ping", "tools/list", "tools/call", "prompts/list",
   "prompts/get", "resources/list", "resources/templates/list",
   "resources/read", "resources/subscribe", "notifications/cancelled",
   "notifications/initialized", "notifications/progress",
   "notifications/roots/list_changed", "logging/setLevel",
   "resources/unsubscribe", "completion/complete"}

\* method names a client can send; Undefined: the message has no method
MethodNames == {"ping", "no/such", "toString", "__proto__", Undefined}

MethodMessages ==
  {Request(id, m, NotAnObject) : id \in {"id0", Undefined}, m \in MethodNames}

NextMethods ==
  \/ \E d \in Slots, m \in MethodMessages : DispatchStart(d, m)
  \/ \E d \in Slots : Settle(d)

SpecMethods == Init /\ [][NextMethods]_vars

\* C11 as stated: a request whose method is not in the method table gets the
\* error METHOD_NOT_FOUND with data {method}, and with no data when the
\* request has no method.
C11_UnknownMethodNotFound ==
  \A d \in Slots :
    (Done(d) /\ IsRequest(d) /\ calls[d].message.method \notin MethodTable)
    => calls[d].ret =
         createJsonRpcError(calls[d].message.id,
           IF calls[d].message.method # Undefined
             THEN [code |-> METHOD_NOT_FOUND, message |-> "Method not found",
                   data |-> [method |-> calls[d].message.method]]
             ELSE [code |-> METHOD_NOT_FOUND, message |-> "Method not found"])

----------------------------------------------------------------------------
(* Specification SpecResources: a static resource and two overlapping      *)
(* templates registered in any order, with and without validators, and     *)
(* resources/read of uris that match one, several or none of them.         *)

ReadUris == {<<"r", "a">>, <<"r", "b">>, <<"q", "a">>, <<"q", "q">>}

ReadMessages == {Request("id0", "resources/read", [uri |-> u]) : u \in ReadUris}

NextResources ==
  \/ \E t \in RoutingTemplates, def \in RegistryResourceDefs :
       resource(t, def.meta, def.validatorsOrHandler, def.handler)
  \/ \E m \in ReadMessages : DispatchStart(1, m)
  \/ HandlerReturn(1)
  \/ \E e \in HandlerErrors : HandlerThrow(1, e)
  \/ Settle(1)

SpecResources == InitRegistry /\ [][NextResources]_vars

\* the position of key k in the order of first registrations
IndexOf(order, k) == CHOOSE i \in 1..Len(order) : order[i] = k

\* a static resource is registered under the uri itself
StaticAt(uri) == uri \in RegisteredResources /\ ~includesBrace(uri)

\* the registered templates whose matcher returns a variable map for uri
MatchingTemplates(uri) ==
  {t \in RegisteredResources :
     /\ includesBrace(t)
     /\ isObject(match(compileUriTemplate(t), uri))}

\* the matching template registered first
FirstMatching(uri) ==
  CHOOSE t \in MatchingTemplates(uri) :
    \A q \in MatchingTemplates(uri) :
      IndexOf(registered.order.resources, t)
        <= IndexOf(registered.order.resources, q)

\* the variables template P extracts from uri
MatchedVars(P, uri) == match(compileUriTemplate(P), uri).vars

\* the validators of P's latest registration, as a list of [key, validator]
ValidatorsOf(P) ==
  IF isObject(registered.resources[P].validators)
    THEN registered.resources[P].validators.list ELSE <<>>

ValidatedKeys(P) == {ValidatorsOf(P)[i].key : i \in 1..Len(ValidatorsOf(P))}

\* every validator of P accepts the variable it is registered for
VarsAccepted(P, uri) ==
  \A i \in 1..Len(ValidatorsOf(P)) :
    ValidatorsOf(P)[i].key \in DOMAIN MatchedVars(P, uri)
      => Accepts(ValidatorsOf(P)[i].validator,
                 Raw(MatchedVars(P, uri)[ValidatorsOf(P)[i].key]))

\* the handler received the variables of P: a validator's output for a
\* variable that has a validator, the matched string for another
ReceivedVarsOf(received, P, uri) ==
  /\ DOMAIN received = DOMAIN MatchedVars(P, uri)
  /\ \A k \in DOMAIN received :
       IF k \in ValidatedKeys(P)
         THEN /\ received[k].validated
              /\ received[k].v = MatchedVars(P, uri)[k]
         ELSE received[k] = MatchedVars(P, uri)[k]

\* the step in which resources/read of a uri runs
ReadRuns(d) ==
  /\ TailRuns(d)
  /\ calls'[d].handler = "handleResourcesRead"
  /\ isObject(calls'[d].message.params)

\* C12 as stated: whatever else is registered, resources/read of a uri calls
\* the handler of every registered template P whose matcher accepts the uri,
\* with the uri and P's variables.
C12_Original ==
  [][\A d \in Slots : ReadRuns(d) =>
       LET c == calls'[d]
           u == c.message.params.uri
       IN \A P \in MatchingTemplates(u) :
            /\ Len(c.invoked) = 1
            /\ c.invoked[1].handler = registered.resources[P].handler
            /\ c.invoked[1].uri = u
            /\ DOMAIN c.invoked[1].vars = DOMAIN MatchedVars(P, u)]_vars

\* C12, amended: resources/read of a uri calls the handler of the registered
\* template P whose matcher accepts the uri, with ({href: uri}, P's variables
\* after validation), when no static resource is registered under the uri
\* itself, P is the first such template in registration order and P's
\* validators accept the variables; when a validator rejects, no handler is
\* called and the tail throws INVALID_PARAMS.
C12_FirstTemplateHandlerInvoked ==
  [][\A d \in Slots : ReadRuns(d) =>
       LET c == calls'[d]
           u == c.message.params.uri
       IN \A P \in MatchingTemplates(u) :
            (~StaticAt(u) /\ P = FirstMatching(u)) =>
              IF VarsAccepted(P, u)
                THEN /\ c.pc = "handler"
                     /\ Len(c.invoked) = 1
                     /\ c.invoked[1].of = "resource"
                     /\ c.invoked[1].handler = registered.resources[P].handler
                     /\ c.invoked[1].uri = u
                     /\ ReceivedVarsOf(c.invoked[1].vars, P, u)
                ELSE /\ c.pc = "unwind"
                     /\ c.invoked = <<>>
                     /\ isObject(c.error)
                     /\ c.error.code = INVALID_PARAMS]_vars

\* r/{x} registered with a validator before {y}/a; r/a went to its handler
\* with the validated x
C12_Witness ==
  \E d \in Slots :
    /\ Done(d) /\ calls[d].handler = "handleResourcesRead"
    /\ registered.order.resources = <<(<<"r", "{x}">>), (<<"{y}", "a">>)>>
    /\ "result" \in DOMAIN calls[d].ret
    /\ calls[d].ret.result.by = "h2"
    /\ calls[d].ret.result.uri = <<"r", "a">>
    /\ DOMAIN calls[d].ret.result.vars = {"x"}
    /\ calls[d].ret.result.vars.x.validated
    /\ calls[d].ret.result.vars.x.v = "a"

----------------------------------------------------------------------------
(* Specification SpecBind: messages with and without a progress token,     *)
(* dispatched with and without a sessionId, before and after the transport *)
(* has set its notification sender.                                        *)

\* progress tokens a client can send; the last is neither string nor number
ProgressTokens ==
  {StringToken("tok"), StringToken(""), NumberToken(0), NumberToken(7),
   [boolean |-> TRUE]}

\* params without _meta, with an empty _meta, and with each token
MetaParams ==
  {NotAnObject, [_meta |-> <<>>]}
    \cup {[_meta |-> [progressToken |-> t]] : t \in ProgressTokens}

BindMessages ==
  {Request(id, "ping", p) : id \in {"id0", Undefined}, p \in MetaParams}

SessionIds == {Undefined, "s1"}

NextBind ==
  \/ setNotificationSender("send1")
  \/ \E d \in Slots, m \in BindMessages, sid \in SessionIds :
       DispatchStartWith(d, m, [sessionId |-> sid])
  \/ \E d \in Slots : Settle(d)

SpecBind == Init /\ [][NextBind]_vars

\* the step in which _dispatch is called in slot d
Starts(d) ==
  /\ calls[d].pc \in {"idle", "done"}
  /\ calls'[d].pc \notin {"idle", "done"}

\* the message carries a string or a number under params._meta.progressToken
CarriesToken(message) ==
  /\ isObject(message.params)
  /\ "_meta" \in DOMAIN message.params
  /\ "progressToken" \in DOMAIN message.params._meta
  /\ \/ "string" \in DOMAIN message.params._meta.progressToken
     \/ "number" \in DOMAIN message.params._meta.progressToken

\* C13 as stated: _dispatch binds a progress sender on the context exactly
\* when it was given a sessionId, the notification sender is set and the
\* message carries a string or number progress token, 0 and "" included.
C13_ProgressSenderBound ==
  [][\A d \in Slots : Starts(d) =>
       (isObject(calls'[d].ctx.progress)
          <=> /\ calls'[d].ctx.sessionId # Undefined
              /\ notificationSender # Undefined
              /\ CarriesToken(calls'[d].message))]_vars

----------------------------------------------------------------------------
(* Specification SpecProgress: dispatches of tools/call with distinct      *)
(* request ids and progress tokens, interleaved at their suspension        *)
(* points, whose handlers call ctx.progress.                               *)

ProgressParams(name, v, token) ==
  [name |-> name, arguments |-> Raw(v), _meta |-> [progressToken |-> token]]

\* the dispatches a transport makes: message and contextOptions
ProgressDispatches ==
  {[message |-> Request(p[1], "tools/call", ProgressParams("t1", "good", p[2])),
    contextOptions |-> [sessionId |-> p[3]]] :
     p \in {<<"id0", StringToken("tok"), "s1">>,
            <<"id1", NumberToken(7), "s2">>}}

Updates == {[progress |-> 50], [progress |-> 100]}

\* no dispatch in flight has the request id or the progress token of p
Distinct(p) ==
  \A e \in Slots :
    calls[e].pc \notin {"idle", "done"} =>
      /\ calls[e].message.id # p.message.id
      /\ getProgressToken(calls[e].message) # getProgressToken(p.message)

NextProgress ==
  \/ setNotificationSender("send1")
  \/ tool("t1", [handler |-> "h1", inputSchema |-> NotAnObject,
                 description |-> Undefined])
  \/ \E d \in Slots, p \in ProgressDispatches :
       Distinct(p) /\ DispatchStartWith(d, p.message, p.contextOptions)
  \/ \E d \in Slots, u \in Updates : Progress(d, u)
  \/ \E d \in Slots : HandlerReturn(d)
  \/ \E d \in Slots : Settle(d)

SpecProgress == Init /\ [][NextProgress]_vars

\* the step in which the handler of call d emits an update
Emits(d) == Len(calls'[d].emitted) = Len(calls[d].emitted) + 1

\* C14: with dispatches of distinct request ids and progress tokens
\* interleaved, every call of ctx.progress by the handler of a dispatch hands
\* the sender, at once and after everything sent before, one
\* notifications/progress message with that dispatch's progressToken and the
\* update, under that dispatch's sessionId and with its request id as
\* relatedRequestId; nothing else reaches the sender.
C14_ProgressTaggedInOrder ==
  [][/\ \A d \in Slots : Emits(d) =>
          LET c == calls[d]
              update == calls'[d].emitted[Len(calls'[d].emitted)]
          IN sent' = Append(sent,
               [to |-> notificationSender,
                sessionId |-> c.ctx.sessionId,
                notification |->
                  [method |-> "notifications/progress",
                   params |->
                     [progressToken |-> c.message.params._meta.progressToken,
                      progress |-> update.progress]],
                options |-> [relatedRequestId |-> c.message.id]])
     /\ sent' # sent =>
          /\ \E d \in Slots : Emits(d)
          /\ \A d, e \in Slots : Emits(d) /\ Emits(e) => d = e]_vars

\* two dispatches in flight; the sender got an update of the second, then one
\* of the first
C14_Witness ==
  /\ calls[1].pc = "handler" /\ calls[2].pc = "handler"
  /\ calls[1].message.id = "id0" /\ calls[2].message.id = "id1"
  /\ calls[1].emitted = <<[progress |-> 100]>>
  /\ calls[2].emitted = <<[progress |-> 50]>>
  /\ Len(sent) = 2
  /\ sent[1].options.relatedRequestId = "id1"
  /\ sent[1].notification.params.progress = 50
  /\ sent[2].options.relatedRequestId = "id0"
  /\ sent[2].notification.params.progressToken
       = calls[1].message.params._meta.progressToken

----------------------------------------------------------------------------
(* Properties of the error path (Spec).                                    *)

\* the step in which runMiddlewares has rejected and _dispatch catches
Catches(d) ==
  /\ calls[d].pc = "unwind" /\ calls[d].stack = <<>>
  /\ isObject(calls[d].error)
  /\ calls'[d].pc \in {"onError", "done"}

\* C15: when the chain or the handler of a request has thrown and an onError
\* hook is registered, the hook is called, with the error and the context
\* unchanged; if it returns a {code, message, data?} object the response is
\* the JSON-RPC error made of that object and the request's id, and if it
\* returns nothing or throws the response is the default mapping of the
\* thrown error.  The hook is called for nothing else.
C15_OnErrorHook ==
  /\ [][\A d \in Slots :
          (Catches(d) /\ IsRequest(d)) =>
            IF onErrorHandler # Undefined
              THEN /\ calls'[d].pc = "onError"
                   /\ calls'[d].trace
                        = Append(calls[d].trace,
                                 Event("onError", 0, onErrorHandler))
                   /\ calls'[d].error = calls[d].error
                   /\ calls'[d].ctx = calls[d].ctx
              ELSE /\ calls'[d].pc = "done"
                   /\ ~Ran(calls'[d], "onError")]_vars
  /\ [](\A d \in Slots :
          LET c == calls[d] IN
          /\ Ran(c, "onError") => IsRequest(d) /\ isObject(c.error)
          /\ (Done(d) /\ Ran(c, "onError")) =>
               IF /\ "returned" \in DOMAIN c.onErrorResult
                  /\ isObject(c.onErrorResult.returned)
                 THEN c.ret = [jsonrpc |-> "2.0", id |-> c.message.id,
                               error |-> c.onErrorResult.returned]
                 ELSE c.ret = errorToResponse(c.error, c.message.id))

\* the hook threw while handling a handler's foreign error: default mapping
C15_Witness ==
  \E d \in Slots :
    /\ Done(d) /\ Ran(calls[d], "onError")
    /\ "threw" \in DOMAIN calls[d].onErrorResult
    /\ calls[d].invoked # <<>>
    /\ calls[d].ret.error.code = INTERNAL_ERROR
    /\ calls[d].ret.error.data = [message |-> "handler failed",
                                  stack |-> "stack"]

\* C16 as stated: when a tool, prompt or resource handler throws a value that
\* is not an RpcError and no onError hook takes part, the response of the
\* request is the error INTERNAL_ERROR with data {message, stack} of the
\* thrown Error, or with the thrown value itself when it is not an Error.
C16_ForeignErrorWrapped ==
  \A d \in Slots :
    LET c == calls[d] IN
    (/\ Done(d) /\ IsRequest(d)
     /\ isObject(c.handlerThrew)
     /\ c.handlerThrew.type # "RpcError"
     /\ ~Ran(c, "onError"))
    => c.ret = [jsonrpc |-> "2.0", id |-> c.message.id,
                error |-> [code |-> INTERNAL_ERROR,
                           message |-> "Internal error",
                           data |-> IF c.handlerThrew.type = "Error"
                                      THEN [message |-> c.handlerThrew.message,
                                            stack |-> c.handlerThrew.stack]
                                      ELSE c.handlerThrew]]

----------------------------------------------------------------------------
(* Specification SpecInitialize: initialize requests with the supported    *)
(* version, another version and malformed params, interleaved with each    *)
(* other, with ping and with tool registrations.                           *)

InitializeMessages ==
  {Request("id0", "initialize", InitializeParams(v)) :
     v \in {SUPPORTED_MCP_PROTOCOL_VERSION, "1999-01-01"}}
    \cup {Request("id0", "initialize", NotAnObject),
          Request(Undefined, "initialize",
                  InitializeParams(SUPPORTED_MCP_PROTOCOL_VERSION)),
          Request("id1", "ping", NotAnObject)}

NextInitialize ==
  \/ \E d \in Slots, m \in InitializeMessages : DispatchStart(d, m)
  \/ \E def \in ToolDefs : tool("t1", def)
  \/ \E p \in PromptNames, def \in RegistryPromptDefs : prompt(p, def)
  \/ \E d \in Slots : Settle(d)

SpecInitialize == Init /\ [][NextInitialize]_vars

\* the message of call c is an initialize with the supported version
SupportedInitialize(c) ==
  /\ c.handler = "handleInitialize"
  /\ isInitializeParams(c.message.params)
  /\ c.message.params.protocolVersion = SUPPORTED_MCP_PROTOCOL_VERSION

\* a successful initialize response for the request of call c
InitializeResult(c, response) ==
  /\ DOMAIN response = {"jsonrpc", "id", "result"}
  /\ response.id = c.message.id
  /\ DOMAIN response.result = {"protocolVersion", "serverInfo", "capabilities"}
  /\ response.result.protocolVersion = SUPPORTED_MCP_PROTOCOL_VERSION
  /\ response.result.serverInfo = [name |-> "server", version |-> "1.0.0"]
  /\ capabilitiesOf(response.result) = capabilities

\* C17: an initialize with the supported protocol version succeeds whenever
\* it runs, whether or not the server is already initialized and whatever
\* initialize calls, other requests and registrations came before or are in
\* flight: it does not throw, it leaves the server initialized, and a
\* request gets {protocolVersion, serverInfo, capabilities}.
C17_InitializeRepeatable ==
  /\ [][\A d \in Slots :
          (TailRuns(d) /\ SupportedInitialize(calls'[d])) =>
            /\ calls'[d].pc = "unwind"
            /\ ~isObject(calls'[d].error)
            /\ initialized'
            /\ calls'[d].requestId # Undefined
                 => InitializeResult(calls'[d], calls'[d].ctx.response)]_vars
  /\ [](\A d \in Slots :
          (Done(d) /\ IsRequest(d) /\ SupportedInitialize(calls[d]))
          => InitializeResult(calls[d], calls[d].ret))

\* on one server with a tool, one initialize was rejected for its version
\* and another succeeded
C17_Witness ==
  /\ Done(1) /\ VersionMismatch(calls[1])
  /\ calls[1].ret.error.code = UNSUPPORTED_VERSION
  /\ Done(2) /\ IsRequest(2) /\ SupportedInitialize(calls[2])
  /\ "result" \in DOMAIN calls[2].ret
  /\ initialized /\ tools # <<>>

----------------------------------------------------------------------------
(* Properties of SpecResources: the resolution order of resources/read.    *)

\* C18: resources/read of a uri goes to the static resource registered under
\* exactly that uri, with no variables, even when registered templates match
\* it; otherwise to the first template in registration order whose matcher
\* accepts the uri, with that template's variables; and when neither exists it
\* calls no handler and throws METHOD_NOT_FOUND with data {uri}, which is the
\* error of the request's response.
C18_ReadResolutionOrder ==
  /\ [][\A d \in Slots : ReadRuns(d) =>
          LET c == calls'[d]
              u == c.message.params.uri
          IN IF StaticAt(u)
               THEN /\ c.pc = "handler" /\ Len(c.invoked) = 1
                    /\ c.invoked[1].handler = registered.resources[u].handler
                    /\ c.invoked[1].uri = u
                    /\ DOMAIN c.invoked[1].vars = {}
             ELSE IF MatchingTemplates(u) # {}
               THEN /\ RoutesTo(c, "resource",
                         registered.resources[FirstMatching(u)].handler)
                    /\ c.invoked # <<>> =>
                         /\ c.invoked[1].uri = u
                         /\ ReceivedVarsOf(c.invoked[1].vars,
                                           FirstMatching(u), u)
             ELSE /\ c.pc = "unwind" /\ c.invoked = <<>>
                  /\ c.error = [type |-> "RpcError", code |-> METHOD_NOT_FOUND,
                                message |-> "Method not found",
                                data |-> [uri |-> u]]]_vars
  /\ [](\A d \in Slots :
          (/\ Done(d) /\ IsRequest(d)
           /\ calls[d].handler = "handleResourcesRead"
           /\ isObject(calls[d].error)
           /\ calls[d].error.code = METHOD_NOT_FOUND)
          => /\ calls[d].invoked = <<>>
             /\ calls[d].ret =
                  [jsonrpc |-> "2.0", id |-> calls[d].message.id,
                   error |-> [code |-> METHOD_NOT_FOUND,
                              message |-> "Method not found",
                              data |-> [uri |-> calls[d].message.params.uri]]])

\* both templates were registered before the static resource r/a, and r/a was
\* read from the static resource
C18_Witness ==
  \E d \in Slots :
    /\ Done(d) /\ calls[d].handler = "handleResourcesRead"
    /\ registered.order.resources
         = <<(<<"{y}", "a">>), (<<"r", "{x}">>), (<<"r", "a">>)>>
    /\ registered.resources[<<"r", "a">>].handler = "h1"
    /\ registered.resources[<<"r", "{x}">>].handler = "h2"
    /\ registered.resources[<<"{y}", "a">>].handler = "h2"
    /\ "result" \in DOMAIN calls[d].ret
    /\ calls[d].ret.result.by = "h1"
    /\ calls[d].ret.result.uri = <<"r", "a">>
    /\ DOMAIN calls[d].ret.result.vars = {}

----------------------------------------------------------------------------
(* Specification SpecListing: two tools, two prompts, two static resources *)
(* and two templates registered in any order, any number of times, and the *)
(* four list requests.                                                     *)

ListingPromptDefs ==
  {[title |-> Undefined, description |-> Undefined,
    arguments |-> NotAnObject, inputSchema |-> NotAnObject, handler |-> "h1"]}

ListingResourceDefs ==
  {[meta |-> [name |-> "m1"], validatorsOrHandler |-> "h1",
    handler |-> Undefined]}

ListingMessages ==
  {Request("id0", m, NotAnObject) :
     m \in {"tools/list", "prompts/list", "resources/list",
            "resources/templates/list"}}

NextListing ==
  \/ \E n \in ToolNames, def \in RegistryToolDefs : tool(n, def)
  \/ \E n \in ListingPromptNames, def \in ListingPromptDefs : prompt(n, def)
  \/ \E t \in ListingTemplates, def \in ListingResourceDefs :
       resource(t, def.meta, def.validatorsOrHandler, def.handler)
  \/ \E m \in ListingMessages : DispatchStart(1, m)
  \/ Settle(1)

SpecListing == InitRegistry /\ [][NextListing]_vars

IsStaticKey(template) == ~includesBrace(template)

\* C19: whenever one of the four list requests runs, after any sequence of
\* registrations, its result names the registered keys of its kind in the
\* order of their first registration: registering a key again leaves its
\* place in the listing where it was.
C19_ListingsInInsertionOrder ==
  [][\A d \in Slots :
       (TailRuns(d) /\ calls'[d].requestId # Undefined) =>
       LET c == calls'[d]
           r == c.ctx.response.result
       IN
       /\ c.handler = "handleToolsList"
            => [i \in 1..Len(r.tools) |-> r.tools[i].name]
                 = registered.order.tools
       /\ c.handler = "handlePromptsList"
            => [i \in 1..Len(r.prompts) |-> r.prompts[i].name]
                 = registered.order.prompts
       /\ c.handler = "handleResourcesList"
            => [i \in 1..Len(r.resources) |-> r.resources[i].uri]
                 = SelectSeq(registered.order.resources, IsStaticKey)
       /\ c.handler = "handleResourceTemplatesList"
            => [i \in 1..Len(r.resourceTemplates) |->
                  r.resourceTemplates[i].uriTemplate]
                 = SelectSeq(registered.order.resources, includesBrace)]_vars

\* tools/list answered t1 before t2, with the metadata of t1's second
\* registration
C19_Witness ==
  \E d \in Slots :
    /\ Done(d) /\ calls[d].handler = "handleToolsList"
    /\ registered.replaced
    /\ prompts = <<>> /\ resources = <<>>
    /\ registered.order.tools = <<"t1", "t2">>
    /\ registered.tools["t1"].def.handler = "h2"
    /\ registered.tools["t2"].def.handler = "h1"
    /\ "result" \in DOMAIN calls[d].ret
    /\ Len(calls[d].ret.result.tools) = 2
    /\ calls[d].ret.result.tools[1]
         = ToolMetadata("t1", registered.tools["t1"].def, schemaAdapter)
    /\ calls[d].ret.result.tools[2].name = "t2"

----------------------------------------------------------------------------
(* Specification SpecPrompts: prompt() with and without a schema, and      *)
(* prompts/get with and without arguments, for a registered and for an     *)
(* unregistered name.                                                      *)

PromptsGetMessages ==
  {Request("id0", "prompts/get", CallParams(n, v)) :
     n \in {"p1", "p3", Undefined}, v \in {Undefined, "good", "bad"}}
    \cup {Request("id0", "prompts/get", NotAnObject)}

NextPrompts ==
  \/ \E n \in PromptNames, def \in RegistryPromptDefs : prompt(n, def)
  \/ \E m \in PromptsGetMessages : DispatchStart(1, m)
  \/ HandlerReturn(1)
  \/ \E e \in {ForeignError("handler failed")} : HandlerThrow(1, e)
  \/ Settle(1)

SpecPrompts == InitRegistry /\ [][NextPrompts]_vars

\* C20: prompts/get with the name of a registered prompt P and no arguments
\* uses {} as the arguments: with a validator, {} is what is validated (the
\* handler gets the validator's output for {}, or the tail throws
\* INVALID_PARAMS when the validator rejects {}); without a validator the
\* handler gets {}.  prompts/get with a name that is not registered calls no
\* handler and throws INVALID_PARAMS with data {name}.
C20_PromptsGetDefaultsArguments ==
  [][\A d \in Slots :
       (/\ TailRuns(d)
        /\ calls'[d].handler = "handlePromptsGet"
        /\ isObject(calls'[d].message.params)
        /\ isString(calls'[d].message.params.name))
       => LET c == calls'[d]
              name == c.message.params.name
              raw == c.message.params.arguments
          IN
          IF name \in RegisteredPrompts
            THEN raw.v = Undefined =>
                 LET P == registered.prompts[name].def
                     validator == PromptEntry(name, P, schemaAdapter).validator
                 IN IF validator = Undefined
                      THEN /\ c.pc = "handler" /\ Len(c.invoked) = 1
                           /\ c.invoked[1].handler = P.handler
                           /\ c.invoked[1].args = Raw("{}")
                    ELSE IF Accepts(validator, Raw("{}"))
                      THEN /\ c.pc = "handler" /\ Len(c.invoked) = 1
                           /\ c.invoked[1].handler = P.handler
                           /\ c.invoked[1].args
                                = validate(validator, Raw("{}")).value
                    ELSE /\ c.pc = "unwind" /\ c.invoked = <<>>
                         /\ c.error.code = INVALID_PARAMS
          ELSE /\ c.pc = "unwind" /\ c.invoked = <<>>
               /\ c.error = [type |-> "RpcError", code |-> INVALID_PARAMS,
                             message |-> "Invalid prompt name",
                             data |-> [name |-> name]]]_vars

----------------------------------------------------------------------------
(* Specification SpecValidate: templates of one and of two variables       *)
(* registered without validators, with a validator for one variable and    *)
(* with validators for both, in either order, and resources/read of uris   *)
(* whose segments the validators accept or reject.                         *)

ValidateResourceDefs ==
  {[meta |-> [name |-> "m1"], validatorsOrHandler |-> "h1",
    handler |-> Undefined]}
  \cup {[meta |-> [name |-> "m2"], validatorsOrHandler |-> [list |-> l],
         handler |-> "h2"] :
          l \in {<<[key |-> "x", validator |-> "v1"]>>,
                 <<[key |-> "y", validator |-> "v1"]>>,
                 <<[key |-> "x", validator |-> "v1"],
                   [key |-> "y", validator |-> "v1"]>>,
                 <<[key |-> "y", validator |-> "v1"],
                   [key |-> "x", validator |-> "v1"]>>}}

ValidateUris ==
  {<<"a", "a">>, <<"a", "b">>, <<"b", "a">>, <<"b", "b">>, <<"r", "%62">>}

ValidateMessages ==
  {Request("id0", "resources/read", [uri |-> u]) : u \in ValidateUris}

NextValidate ==
  \/ \E t \in ValidateTemplates, def \in ValidateResourceDefs :
       resource(t, def.meta, def.validatorsOrHandler, def.handler)
  \/ \E m \in ValidateMessages : DispatchStart(1, m)
  \/ HandlerReturn(1)
  \/ \E e \in HandlerErrors : HandlerThrow(1, e)
  \/ Settle(1)

SpecValidate == InitRegistry /\ [][NextValidate]_vars

\* the positions of P's validators that are registered for a variable P
\* extracts from uri and that reject it
Rejecting(P, uri) ==
  {i \in 1..Len(ValidatorsOf(P)) :
     /\ ValidatorsOf(P)[i].key \in DOMAIN MatchedVars(P, uri)
     /\ ~Accepts(ValidatorsOf(P)[i].validator,
                 Raw(MatchedVars(P, uri)[ValidatorsOf(P)[i].key]))}

\* the validator P registers for variable k
ValidatorFor(P, k) ==
  ValidatorsOf(P)[CHOOSE i \in 1..Len(ValidatorsOf(P)) :
                    ValidatorsOf(P)[i].key = k].validator

----------------------------------------------------------------------------
(* Specification SpecIsolation: two dispatches in flight at once, each     *)
(* through a chain whose middlewares write ctx.state and ctx.response, and *)
(* a tool handler that writes ctx.state.                                   *)

IsolationMessages ==
  {Request("id0", "ping", NotAnObject),
   Request("id1", "tools/call", CallParams("t1", "good"))}

IsolationResponses ==
  {createJsonRpcResponse(id, [by |-> "middleware"]) : id \in RequestIds}

NextIsolation ==
  \/ \E m \in {"A"} : use(m)
  \/ tool("t1", [handler |-> "h1", inputSchema |-> NotAnObject,
                 description |-> Undefined])
  \/ \E d \in Slots, m \in IsolationMessages : DispatchStart(d, m)
  \/ \E d \in Slots, k \in StateKeys, v \in {"s1", "s2"} : WriteState(d, k, v)
  \/ \E d \in Slots : MiddlewareNext(d)
  \/ \E d \in Slots, r \in IsolationResponses : MiddlewareRespond(d, r)
  \/ \E d \in Slots : HandlerReturn(d)
  \/ \E d \in Slots : PostReturn(d)
  \/ \E d \in Slots, r \in IsolationResponses : PostRespond(d, r)
  \/ \E d \in Slots : Settle(d)

SpecIsolation == Init /\ [][NextIsolation]_vars

----------------------------------------------------------------------------
(* Properties of Spec: when the onError hook runs.                         *)

\* the calls of the onError hook in the dispatch of c
HookCalls(c) == {k \in 1..Len(c.trace) : c.trace[k].ev = "onError"}

\* the hook is called at most once per dispatch, in the step that catches
\* what the chain threw, only for a request, and never in a dispatch that
\* ends in "No response generated"
HookOnlyOnThrow ==
  /\ [][\A d \in Slots :
          HookCalls(calls'[d]) # HookCalls(calls[d]) =>
            \/ Catches(d) /\ IsRequest(d) /\ calls[d].threw
            \/ Starts(d) /\ HookCalls(calls'[d]) = {}]_vars
  /\ [](\A d \in Slots :
          LET c == calls[d] IN
          /\ Cardinality(HookCalls(c)) <= 1
          /\ HookCalls(c) # {} =>
               /\ IsRequest(d) /\ c.threw /\ isObject(c.error)
          /\ (Done(d) /\ IsRequest(d)
                /\ c.ret = NoResponseGenerated(c.requestId))
               => HookCalls(c) = {})

\* C23 as stated: the hook is called at most once per dispatch, only for a
\* request whose chain or handler threw to the dispatcher; never for a
\* notification, never for a request with an unknown method, never for a
\* request that ends in "No response generated".
C23_Original ==
  /\ HookOnlyOnThrow
  /\ [](\A d \in Slots :
          (calls[d].pc # "idle" /\ calls[d].handler = Undefined)
            => HookCalls(calls[d]) = {})

\* C23, amended: as stated, except that a request with an unknown method
\* does get the hook called when a middleware of its chain threw to the
\* dispatcher; what never calls the hook is the tail's METHOD_NOT_FOUND.
C23_HookOnlyAfterThrow ==
  /\ HookOnlyOnThrow
  /\ [](\A d \in Slots :
          (/\ calls[d].pc # "idle" /\ calls[d].handler = Undefined
           /\ HookCalls(calls[d]) # {})
          => calls[d].error \in MiddlewareErrors)

\* the hook ran for a request with an unknown method whose middleware threw
\* after the tail had written METHOD_NOT_FOUND
C23_Witness ==
  \E d \in Slots :
    /\ Done(d) /\ IsRequest(d) /\ calls[d].handler = Undefined
    /\ Cardinality(HookCalls(calls[d])) = 1
    /\ Ran(calls[d], "tail")
    /\ calls[d].error \in MiddlewareErrors

----------------------------------------------------------------------------
(* Properties of Spec: a request with an unknown method.                   *)

\* the response the tail writes when the lookup found no handler
NotFoundResponse(c) ==
  createJsonRpcError(c.requestId,
    [code |-> METHOD_NOT_FOUND, message |-> "Method not found",
     data |-> [method |-> c.message.method]])

\* C24: for a request whose method has no handler the METHOD_NOT_FOUND
\* response is written by the tail, which runs after the code before next()
\* of every registered middleware, in order.  When a middleware returned
\* without calling next() or threw before calling it, the tail did not run
\* and the response is not METHOD_NOT_FOUND: it is the default mapping of the
\* error that reached the dispatcher (no onError hook taking part), or else
\* what a middleware wrote to ctx.response, or "No response generated".
C24_UnknownMethodRunsChain ==
  /\ [][\A d \in Slots :
          (/\ TailRuns(d)
           /\ calls'[d].handler = Undefined
           /\ calls'[d].requestId # Undefined)
          => LET c == calls'[d]
                 pres == SelectSeq(c.trace, IsPre)
             IN /\ Len(pres) = Len(middlewares)
                /\ \A k \in 1..Len(pres) :
                     pres[k] = Event("pre", k - 1, middlewares[k])
                /\ ~isObject(c.error)
                /\ c.ctx.response = NotFoundResponse(c)]_vars
  /\ [](\A d \in Slots :
          LET c == calls[d] IN
          (Done(d) /\ IsRequest(d) /\ c.handler = Undefined) =>
            /\ ~Ran(c, "tail") => c.ret # NotFoundResponse(c)
            /\ (isObject(c.error) /\ ~Ran(c, "onError"))
                 => /\ c.ret = errorToResponse(c.error, c.requestId)
                    /\ c.ret # NotFoundResponse(c)
            /\ ~isObject(c.error)
                 => c.ret = IF isObject(c.ctx.response)
                              THEN c.ctx.response
                              ELSE NoResponseGenerated(c.requestId)
            /\ (Skipped(c) = {} /\ ~c.threw) => Ran(c, "tail"))

\* a request with an unknown method, two middlewares: the second returned
\* without calling next() and the request ended in "No response generated"
C24_Witness ==
  \E d \in Slots :
    /\ Done(d) /\ IsRequest(d) /\ calls[d].handler = Undefined
    /\ Len(middlewares) = 2
    /\ Skipped(calls[d]) = {1}
    /\ ~Ran(calls[d], "tail") /\ ~calls[d].threw
    /\ calls[d].ret = NoResponseGenerated(calls[d].requestId)

----------------------------------------------------------------------------
(* Specification SpecGate: a server that registers during startup and then *)
(* serves.  Slot 1 takes requests dispatched while no initialize has       *)
(* succeeded; the other slots take any request, initialize included, at    *)
(* any time.                                                               *)

GateMethods == (MethodTable \ {"initialize"}) \cup {"no/such"}

GateMessages ==
  {Request("id1", m, NotAnObject) : m \in GateMethods}
    \cup {Request("id1", "tools/call", CallParams("t1", v)) :
            v \in {"good", "bad"}}
    \cup {Request("id1", "prompts/get", CallParams("p1", "good")),
          Request("id1", "resources/read", [uri |-> <<"r", "a">>])}

\* no _dispatch call has been made yet
Startup == \A d \in Slots : calls[d].pc = "idle"

NextGate ==
  \/ Startup /\ tool("t1", [handler |-> "h2",
                            inputSchema |-> StandardSchema("v1"),
                            description |-> "d1"])
  \/ Startup /\ \E def \in ListingPromptDefs : prompt("p1", def)
  \/ Startup /\ \E def \in ListingResourceDefs :
       resource(<<"r", "{x}">>, def.meta, def.validatorsOrHandler, def.handler)
  \/ ~initialized /\ \E m \in GateMessages : DispatchStart(1, m)
  \/ \E d \in Slots \ {1}, m \in GateMessages : DispatchStart(d, m)
  \/ \E d \in Slots \ {1},
        v \in {SUPPORTED_MCP_PROTOCOL_VERSION, "1999-01-01"} :
       DispatchStart(d, Request("id0", "initialize", InitializeParams(v)))
  \/ \E d \in Slots : HandlerReturn(d)
  \/ \E d \in Slots : Settle(d)

SpecGate == InitRegistry /\ [][NextGate]_vars

\* C25: no method needs initialize first.  On a server whose registry is
\* fixed, two dispatches of the same request with a method other than
\* initialize return the same response, whether or not an initialize
\* succeeded before either of them; and the initialized flag changes only in
\* the step in which the initialize handler succeeds, from any value to true.
C25_NoInitializeGate ==
  /\ [][initialized' # initialized =>
          /\ initialized'
          /\ \E d \in Slots :
               TailRuns(d) /\ SupportedInitialize(calls'[d])]_vars
  /\ [](\A d, e \in Slots :
          (/\ Done(d) /\ Done(e)
           /\ calls[d].message = calls[e].message
           /\ calls[d].handler # "handleInitialize")
          => calls[d].ret = calls[e].ret)

\* the same tools/call was answered with a result before and after a
\* successful initialize
C25_Witness ==
  /\ initialized
  /\ Done(1) /\ Done(2)
  /\ calls[1].message = calls[2].message
  /\ calls[1].handler = "handleToolsCall"
  /\ "result" \in DOMAIN calls[1].ret
  /\ calls[1].ret = calls[2].ret

----------------------------------------------------------------------------
(* Specification SpecLive: use(), tool(), prompt() and resource() called   *)
(* while a dispatch is between its start and its end, every middleware     *)
(* calling next().                                                         *)

LiveMessages ==
  {Request("id0", "tools/call", CallParams("t1", "good")),
   Request("id0", "prompts/get", CallParams("p1", "good")),
   Request("id0", "resources/read", [uri |-> <<"r", "a">>])}

NextLive ==
  \/ \E m \in Middlewares : use(m)
  \/ \E def \in RegistryToolDefs : tool("t1", def)
  \/ \E def \in RegistryPromptDefs : prompt("p1", def)
  \/ \E def \in RegistryResourceDefs :
       resource(<<"r", "{x}">>, def.meta, def.validatorsOrHandler, def.handler)
  \/ \E m \in LiveMessages : DispatchStart(1, m)
  \/ MiddlewareNext(1)
  \/ HandlerReturn(1)
  \/ PostReturn(1)
  \/ Settle(1)

SpecLive == InitRegistry /\ [][NextLive]_vars

\* the middlewares whose code before next() has run in call c, in order
Pres(c) == SelectSeq(c.trace, IsPre)

\* C26: the chain of a dispatch follows the server's middleware list as it is
\* when each next() is called: the tail runs when every middleware of the
\* list at that moment has run, those added with use() since the dispatch
\* started included, and a middleware added after the tail has run does not
\* run in that dispatch.  The tail of tools/call, prompts/get and
\* resources/read uses the entry registered at the moment the tail runs: the
\* handler of the latest registration under the name or template, whatever
\* was or was not registered when the dispatch started; what is registered
\* after the tail does not change the handler called.
C26_ListsReadLive ==
  /\ [][\A d \in Slots :
          /\ TailRuns(d) =>
               LET c == calls'[d] IN
               /\ Len(Pres(c)) = Len(middlewares)
               /\ \A k \in 1..Len(middlewares) :
                    Pres(c)[k] = Event("pre", k - 1, middlewares[k])
               /\ c.handler = "handleToolsCall" =>
                    IF "t1" \in RegisteredTools
                      THEN RoutesTo(c, "tool", registered.tools["t1"].def.handler)
                      ELSE c.invoked = <<>> /\ c.error.code = METHOD_NOT_FOUND
               /\ c.handler = "handlePromptsGet" =>
                    IF "p1" \in RegisteredPrompts
                      THEN RoutesTo(c, "prompt",
                                    registered.prompts["p1"].def.handler)
                      ELSE c.invoked = <<>> /\ c.error.code = INVALID_PARAMS
               /\ c.handler = "handleResourcesRead" =>
                    IF <<"r", "{x}">> \in RegisteredResources
                      THEN RoutesTo(c, "resource",
                             registered.resources[<<"r", "{x}">>].handler)
                      ELSE c.invoked = <<>> /\ c.error.code = METHOD_NOT_FOUND
          /\ (Ran(calls[d], "tail") /\ ~Starts(d)) =>
               /\ Pres(calls'[d]) = Pres(calls[d])
               /\ Len(calls'[d].invoked) = Len(calls[d].invoked)]_vars
  /\ [](\A d \in Slots :
          (Done(d) /\ calls[d].invoked # <<>>)
            => /\ "result" \in DOMAIN calls[d].ret
               /\ calls[d].ret.result.by = calls[d].invoked[1].handler)

\* a dispatch suspended in its handler after a chain of one middleware: the
\* list has two middlewares by now and the tool was replaced meanwhile
C26_Witness ==
  \E d \in Slots :
    /\ calls[d].pc = "handler"
    /\ calls[d].handler = "handleToolsCall"
    /\ Len(Pres(calls[d])) = 1 /\ Len(middlewares) = 2
    /\ calls[d].invoked[1].handler = "h1"
    /\ registered.tools["t1"].def.handler = "h2"

----------------------------------------------------------------------------
(* Specification SpecSender: the transport sets the notification sender,   *)
(* and sets another one, before and during dispatches whose handler        *)
(* reports progress.                                                       *)

SenderDispatches ==
  ProgressDispatches
    \cup {[message |-> Request("id0", "tools/call", CallParams("t1", "good")),
           contextOptions |-> [sessionId |-> "s1"]],
          [message |-> Request("id0", "tools/call",
                               ProgressParams("t1", "good", StringToken("tok"))),
           contextOptions |-> NoContextOptions]}

NextSender ==
  \/ \E sender \in {"send1", "send2"} : setNotificationSender(sender)
  \/ tool("t1", [handler |-> "h1", inputSchema |-> NotAnObject,
                 description |-> Undefined])
  \/ \E p \in SenderDispatches :
       DispatchStartWith(1, p.message, p.contextOptions)
  \/ \E u \in Updates : Progress(1, u)
  \/ HandlerReturn(1)
  \/ Settle(1)

SpecSender == Init /\ [][NextSender]_vars

\* C27: a dispatch has a progress sender exactly when, at the moment
\* _dispatch is called, it was given a sessionId, a notification sender is
\* set and the message carries a progress token, and that does not change
\* while the dispatch lasts, whatever sender is set later.  Every update the
\* handler reports goes, once, to the notification sender that is set at the
\* moment of the update: after _setNotificationSender replaced the sender,
\* to the new one.
C27_SenderReadAtUpdate ==
  [][\A d \in Slots :
       /\ Starts(d) =>
            (isObject(calls'[d].ctx.progress)
               <=> /\ TruthyString(calls'[d].ctx.sessionId)
                   /\ notificationSender # Undefined
                   /\ TruthyToken(getProgressToken(calls'[d].message)))
       /\ (calls[d].pc # "idle" /\ ~Starts(d)) =>
            calls'[d].ctx.progress = calls[d].ctx.progress
       /\ Emits(d) =>
            /\ notificationSender # Undefined
            /\ Len(sent') = Len(sent) + 1
            /\ SubSeq(sent', 1, Len(sent)) = sent
            /\ sent'[Len(sent')].to = notificationSender
            /\ sent'[Len(sent')].options.relatedRequestId = calls[d].requestId
            /\ sent'[Len(sent')].notification.params.progress
                 = calls'[d].emitted[Len(calls'[d].emitted)].progress
       /\ (calls[d].pc # "idle" /\ ~isObject(calls[d].ctx.progress))
            => calls'[d].emitted = calls[d].emitted \/ Starts(d)]_vars

\* one dispatch reported two updates: the first went to the sender set when
\* it started, the second to the sender set since
C27_Witness ==
  /\ calls[1].pc = "handler"
  /\ Len(calls[1].emitted) = 2 /\ Len(sent) = 2
  /\ sent[1].to = "send1" /\ sent[2].to = "send2"
  /\ notificationSender = "send2"
  /\ sent[1].options.relatedRequestId = calls[1].requestId
  /\ sent[2].options.relatedRequestId = calls[1].requestId

====
